---- MODULE Spec2Model ----
(***************************************************************************)
(* dgs-graphstream: the partition splitter (graph.py), the cluster id      *)
(* namespacer and the homeless-node fixup (cluster.py), the node order     *)
(* filter and run_clustering (genGraphStream.py), the frame windows        *)
(* (file_io.py) and the color fusion (color.py), the command line checks   *)
(* and the random assignments (genGraphStream.py) and the frame tiling     *)
(* (image.py), as state machines, one specification per stage.             *)
(*                                                                         *)
(* A graph is a set of node ids and a set of edges; an edge is the pair    *)
(* <<u, v>> in the orientation the graph's edges() reports it (networkx    *)
(* reports each undirected edge once, in one of its two orientations).     *)
(* A node's attribute dictionary is a function from attribute names to     *)
(* values: "hidden" \in DOMAIN d is Python's 'hidden' in d.                *)
(***************************************************************************)
EXTENDS Integers, Sequences, FiniteSets, TLC

\* ---------------------------------------------------------------- bounds
MaxNodes == 3
MaxParts == 2
MaxEdges == 3
MaxGraphs == 3
MaxClusterId == 2
MaxTrailing == 2

MaxGiven == 3
MaxFrames == 3

\* ------------------------------------------------------ program constants
CutEdgeNodeSize == 5

NodeIds == 0..(MaxNodes - 1)
PartitionIds == 0..(MaxParts - 1)
Schemes == {"communities", "cut-edges"}
\* the node ids the per-partition cluster maps may have as keys
ClusterNodeIds == 1..3
\* the node ids of the sub-graphs whose frame windows are computed (Scenario C has four)
FrameNodeIds == 1..4
\* the fill colors gvmap hands out
Colors == {"#ff0000", "#0000ff"}
\* args.node_color: unset, or one color for every node
NodeColors == {"", "#00ff00"}
\* local cluster ids are 1-based
ClusterIds == 1..MaxClusterId

VARIABLES
    input_nodes,    \* input_graph.nodes()
    input_edges,    \* input_graph.edges()
    assignments,    \* node -> partition id, or -1 (excluded)
    partitions,     \* the list get_partitions returns
    sub_graphs,     \* the list create_sub_graphs returns
    scheme,         \* args.scheme, read by split_graph
    created,        \* the placeholders add_cut_edges_to_subgraphs made, in creation order
    clusters_in,    \* clusters_per_node_per_graph as passed to do_local_to_global_cluster_conversion
    clusters_per_node_per_graph,        \* the same list of dictionaries, updated in place
    local_to_global_cluster_mapping,    \* the dictionary the conversion returns
    order_in,       \* the list get_node_order returns
    node_order,     \* the same list, filtered in place by filter_node_order
    graph_nodes,    \* perform_clustering: nodes of sub_graph_without_hidden_nodes
    graph_edges,    \* its edges
    clustering,     \* args.clustering
    clusters_found, \* the dictionary run_clustering returned
    clusters_fixed,  \* the same dictionary, completed in place by the homeless fixup
    external_calls, \* the clustering tools run so far
    trailing_frame_count,   \* padding_frame_count, as passed to write_dgs_file
    dgs,            \* the DGS files written so far, one per sub-graph
    color_per_node, \* perform_coloring: the fillcolor gvmap gave each node
    scan_order,     \* the order in which items() of the merged cluster dictionary come
    cluster_to_color,   \* get_colors_per_node_global: the dictionary built by the first loop
    colors_per_node,    \* the dictionary perform_coloring writes to the sub-graphs
    fillcolor,      \* the fillcolor attribute of the sub-graphs' nodes
    parsed_args,    \* the namespace parse_arguments returned
    args,           \* the same namespace, updated in place by validate_arguments
    logged_errors,  \* the messages validate_arguments passed to logging.error
    exit_status,    \* the status sys.exit was called with, 0 while the program runs
    random_graph,   \* generate_random_assignments: graph.nodes()
    filter_file,    \* args.filter is set
    filter_values,  \* the content of the filter file, node -> value
    tpwgts,         \* args.tpwgts, in thousandths
    random_result,  \* what generate_random_assignments returned, or the error it raised
    frames_found,   \* combine_images_into_tiles: partition -> the rendered frames glob finds
    fps,            \* args.fps
    tiled,          \* what combine_images_into_tiles returned, or the error it raised
    pc              \* position in split_graph, or in create_clusters

split_vars == <<input_nodes, input_edges, assignments, partitions, sub_graphs, scheme, created>>

cluster_vars == <<clusters_in, clusters_per_node_per_graph, local_to_global_cluster_mapping>>

order_vars == <<order_in, node_order>>

clustering_vars == <<graph_nodes, graph_edges, clustering, clusters_found, clusters_fixed, external_calls>>

frame_vars == <<trailing_frame_count, dgs>>

color_vars == <<color_per_node, scan_order, cluster_to_color, colors_per_node, fillcolor>>

main_vars == <<parsed_args, args, logged_errors, exit_status>>

random_vars == <<random_graph, filter_file, filter_values, tpwgts, random_result>>

tile_vars == <<frames_found, fps, tiled>>

\* what the actions of each stage leave alone
not_split_vars == <<cluster_vars, order_vars, clustering_vars, frame_vars, color_vars,
    main_vars, random_vars, tile_vars>>

not_cluster_vars == <<split_vars, order_vars, clustering_vars, frame_vars, color_vars,
    main_vars, random_vars, tile_vars>>

not_order_vars == <<split_vars, cluster_vars, clustering_vars, frame_vars, color_vars,
    main_vars, random_vars, tile_vars>>

not_clustering_vars == <<split_vars, cluster_vars, order_vars, frame_vars, color_vars,
    main_vars, random_vars, tile_vars>>

not_frame_vars == <<split_vars, cluster_vars, order_vars, clustering_vars, color_vars,
    main_vars, random_vars, tile_vars>>

not_color_vars == <<split_vars, cluster_vars, order_vars, clustering_vars, frame_vars,
    main_vars, random_vars, tile_vars>>

vars == <<split_vars, cluster_vars, order_vars, clustering_vars, frame_vars, color_vars,
    main_vars, random_vars, tile_vars, pc>>

\* ------------------------------------------------------------ list helpers
Range(s) == {s[i] : i \in DOMAIN s}

Max(S) == CHOOSE x \in S : \A y \in S : y <= x

Min(S) == CHOOSE x \in S : \A y \in S : x <= y

RECURSIVE SortedInts(_)
SortedInts(S) == IF S = {} THEN <<>> ELSE <<Min(S)>> \o SortedInts(S \ {Min(S)})

\* the lists that hold every element of S once
NodeOrders(S) == {l \in [1..Cardinality(S) -> S] : \A i, j \in DOMAIN l : i # j => l[i] # l[j]}

EdgeBefore(e, f) == e[1] < f[1] \/ (e[1] = f[1] /\ e[2] < f[2])

FirstEdge(E) == CHOOSE e \in E : \A f \in E \ {e} : EdgeBefore(e, f)

\* the order in which a graph's edges() lists its edges: by first endpoint, then second
RECURSIVE EdgeList(_)
EdgeList(E) == IF E = {} THEN <<>> ELSE <<FirstEdge(E)>> \o EdgeList(E \ {FirstEdge(E)})

\* dict[key] = value, inserting the key when it is new
DictSet(d, k, v) == [x \in DOMAIN d \cup {k} |-> IF x = k THEN v ELSE d[x]]

\* ------------------------------------------------------------ genGraphStream.py
\* get_partitions: the distinct values of the assignment, -1 removed, as a list.
\* list(set) of small non-negative ints lists them in ascending order.
get_partitions(a) == SortedInts({a[n] : n \in DOMAIN a} \ {-1})

\* list.remove(x): the list without the first occurrence of x
RECURSIVE ListRemove(_, _)
ListRemove(l, x) ==
    IF l = <<>> THEN <<>>
    ELSE IF Head(l) = x THEN Tail(l)
    ELSE <<Head(l)>> \o ListRemove(Tail(l), x)

\* filter_node_order: the for loop walks the list by position while remove() shortens it.
\* i is the position (1-based) the iterator reads next.
RECURSIVE FilterNodeOrderFrom(_, _, _)
FilterNodeOrderFrom(order, a, i) ==
    IF i > Len(order) THEN order
    ELSE IF a[order[i]] = -1
         THEN FilterNodeOrderFrom(ListRemove(order, order[i]), a, i + 1)
         ELSE FilterNodeOrderFrom(order, a, i + 1)

filter_node_order(order, a) == FilterNodeOrderFrom(order, a, 1)

\* ------------------------------------------------------------ graph.py
Reversed(e) == <<e[2], e[1]>>

\* The copy of the sub-graph view: the edges of the graph among the kept nodes;
\* flipped holds the edges the copy reports in the other orientation.
SubgraphCopyEdges(edges, kept, flipped) ==
    {IF e \in flipped THEN Reversed(e) ELSE e : e \in {f \in edges : f[1] \in kept /\ f[2] \in kept}}

\* p <= partition instead of p == partition
create_sub_graph_upto(nodes, edges, partition, a, flipped) ==
    LET sub_graph_nodes == {n \in DOMAIN a : a[n] <= partition}
        kept == sub_graph_nodes \cap nodes
    IN  [partition |-> partition,
         nodes     |-> kept,
         edges     |-> SubgraphCopyEdges(edges, kept, flipped),
         node      |-> [n \in kept |-> [partition |-> partition]]]

create_sub_graph(nodes, edges, partition, a, flipped) ==
    LET sub_graph_nodes == {n \in DOMAIN a : a[n] = partition}
        kept == sub_graph_nodes \cap nodes
    IN  [partition |-> partition,
         nodes     |-> kept,
         edges     |-> SubgraphCopyEdges(edges, kept, flipped),
         node      |-> [n \in kept |-> [partition |-> partition]]]

create_sub_graphs(nodes, edges, parts, a, flipped) ==
    [i \in 1..Len(parts) |-> create_sub_graph(nodes, edges, parts[i], a, flipped)]

\* only the orientation as given
is_edge_in_list_one_way(edge, edge_list) == edge \in edge_list

is_edge_in_list(edge, edge_list) == edge \in edge_list \/ Reversed(edge) \in edge_list

\* and instead of or
is_edge_connected_to_graph_both(edge, graph) == edge[1] \in graph.nodes /\ edge[2] \in graph.nodes

is_edge_connected_to_graph(edge, graph) == edge[1] \in graph.nodes \/ edge[2] \in graph.nodes

\* <<internal_node, external_node>>
get_internal_external_nodes(edge, graph) ==
    IF edge[1] \notin graph.nodes THEN <<edge[2], edge[1]>>
    ELSE IF edge[2] \notin graph.nodes THEN <<edge[1], edge[2]>>
    ELSE <<-1, -1>>

\* one endpoint in a sub-graph is enough
get_cut_edges_either(edges, sgs) ==
    LET sub_graph_edges == UNION {sgs[i].edges : i \in DOMAIN sgs}
        sub_graph_nodes == UNION {sgs[i].nodes : i \in DOMAIN sgs}
        IsCut(edge) == /\ (edge[1] \in sub_graph_nodes \/ edge[2] \in sub_graph_nodes)
                       /\ ~is_edge_in_list(edge, sub_graph_edges)
    IN  SelectSeq(EdgeList(edges), IsCut)

get_cut_edges(edges, sgs) ==
    LET sub_graph_edges == UNION {sgs[i].edges : i \in DOMAIN sgs}
        sub_graph_nodes == UNION {sgs[i].nodes : i \in DOMAIN sgs}
        IsCut(edge) == /\ edge[1] \in sub_graph_nodes
                       /\ edge[2] \in sub_graph_nodes
                       /\ ~is_edge_in_list(edge, sub_graph_edges)
    IN  SelectSeq(EdgeList(edges), IsCut)

\* the list is replaced, not appended to
LinkHiddenNodeOverwrite(attrs, new_node) ==
    IF "hidden_nodes" \in DOMAIN attrs
    THEN [attrs EXCEPT !["hidden_nodes"] = <<new_node>>]
    ELSE attrs @@ [hidden_nodes |-> <<new_node>>]

\* the hidden_nodes attribute of the internal node after a new placeholder is linked to it
LinkHiddenNode(attrs, new_node) ==
    IF "hidden_nodes" \in DOMAIN attrs
    THEN [attrs EXCEPT !["hidden_nodes"] = Append(@, new_node)]
    ELSE attrs @@ [hidden_nodes |-> <<new_node>>]

\* partition of the wrong endpoint
HiddenNodeAttrsExternalPartition(sub_graph, a, internal_node, external_node, size) ==
    [hidden    |-> 1,
     size      |-> size,
     partition |-> a[external_node],
     connect   |-> <<internal_node, external_node>>]

\* connect lists the external node first
HiddenNodeAttrsConnectSwapped(sub_graph, a, internal_node, external_node, size) ==
    [hidden    |-> 1,
     size      |-> size,
     partition |-> sub_graph.node[internal_node]["partition"],
     connect   |-> <<external_node, internal_node>>]

\* the attributes the placeholder ends up with
HiddenNodeAttrs(sub_graph, a, internal_node, external_node, size) ==
    [hidden    |-> 1,
     size      |-> size,
     partition |-> sub_graph.node[internal_node]["partition"],
     connect   |-> <<internal_node, external_node>>]

\* the internal node loses its partition when the placeholder is inserted
insert_node_into_assignments_moving(a, new_node, internal_node) ==
    DictSet(DictSet(a, new_node, a[internal_node]), internal_node, -1)

\* assignments[new_node] = assignments[internal_node]
insert_node_into_assignments(a, new_node, internal_node) ==
    DictSet(a, new_node, a[internal_node])

\* One pass of the inner loop: the placeholder of one cut edge of sub-graph i.
\* st = [sgs, assignments, available_node_id, created]
AddHiddenNode(st, i, edge, size) ==
    LET sub_graph == st.sgs[i]
        ie == get_internal_external_nodes(edge, sub_graph)
        internal_node == ie[1]
        external_node == ie[2]
        new_node == st.available_node_id
        linked == [sub_graph.node EXCEPT ![internal_node] = LinkHiddenNode(@, new_node)]
        new_sub_graph ==
            [sub_graph EXCEPT
                !.nodes = @ \cup {new_node},
                !.edges = @ \cup {<<internal_node, new_node>>},
                !.node  = DictSet(linked, new_node,
                                  HiddenNodeAttrs(sub_graph, st.assignments,
                                                  internal_node, external_node, size))]
    IN  [sgs               |-> [st.sgs EXCEPT ![i] = new_sub_graph],
         assignments       |-> insert_node_into_assignments(st.assignments, new_node,
                                                            internal_node),
         available_node_id |-> st.available_node_id + 1,
         created           |-> Append(st.created,
                                      [id |-> new_node, graph |-> i,
                                       internal |-> internal_node, external |-> external_node])]

RECURSIVE AddSubGraphCutEdges(_, _, _, _, _)
AddSubGraphCutEdges(st, i, sub_graph_cut_edges, j, size) ==
    IF j > Len(sub_graph_cut_edges) THEN st
    ELSE AddSubGraphCutEdges(AddHiddenNode(st, i, sub_graph_cut_edges[j], size),
                             i, sub_graph_cut_edges, j + 1, size)

RECURSIVE AddCutEdgesFrom(_, _, _, _)
AddCutEdgesFrom(st, cut_edges, i, size) ==
    IF i > Len(st.sgs) THEN st
    ELSE LET IsConnected(edge) == is_edge_connected_to_graph(edge, st.sgs[i])
             sub_graph_cut_edges == SelectSeq(cut_edges, IsConnected)
         IN  AddCutEdgesFrom(AddSubGraphCutEdges(st, i, sub_graph_cut_edges, 1, size),
                             cut_edges, i + 1, size)

\* len(nodes) instead of max(nodes) + 1
FirstAvailableNodeIdByCount(nodes) == Cardinality(nodes)

\* next available node id
FirstAvailableNodeId(nodes) == Max(nodes) + 1

add_cut_edges_to_subgraphs(nodes, edges, sgs, a, size) ==
    AddCutEdgesFrom([sgs               |-> sgs,
                     assignments       |-> a,
                     available_node_id |-> FirstAvailableNodeId(nodes),
                     created           |-> <<>>],
                    get_cut_edges(edges, sgs), 1, size)

\* ------------------------------------------------------------ graph.py: node order
\* list.index(x), 0-based; the callers look up only nodes the list holds
ListIndex(l, x) == Min({i \in DOMAIN l : l[i] = x}) - 1

\* list.insert(i, x), i 0-based: past the end it appends
ListInsert(l, i, x) ==
    LET at == Min({i, Len(l)})
    IN  [j \in 1..(Len(l) + 1) |->
            IF j <= at THEN l[j] ELSE IF j = at + 1 THEN x ELSE l[j - 1]]

\* get_hidden_nodes: (node, connect) of every placeholder, sub-graph by sub-graph, in
\* the order the placeholders were added to the sub-graph
RECURSIVE get_hidden_nodes(_, _)
get_hidden_nodes(sgs, i) ==
    IF i > Len(sgs) THEN <<>>
    ELSE LET hidden == SortedInts({n \in sgs[i].nodes : "hidden" \in DOMAIN sgs[i].node[n]})
         IN  [j \in DOMAIN hidden |-> <<hidden[j], sgs[i].node[hidden[j]]["connect"]>>]
             \o get_hidden_nodes(sgs, i + 1)

\* the placeholder is put after the first of the two nodes
hidden_node_index_after_first(order, connected_nodes) ==
    Min({ListIndex(order, connected_nodes[1]), ListIndex(order, connected_nodes[2])}) + 1

\* hidden node get added after the last of the 2 nodes from the edge it represents
hidden_node_index(order, connected_nodes) ==
    Max({ListIndex(order, connected_nodes[1]), ListIndex(order, connected_nodes[2])}) + 1

RECURSIVE InsertHiddenNodes(_, _, _)
InsertHiddenNodes(order, hidden_nodes, j) ==
    IF j > Len(hidden_nodes) THEN order
    ELSE InsertHiddenNodes(ListInsert(order,
                                      hidden_node_index(order, hidden_nodes[j][2]),
                                      hidden_nodes[j][1]),
                           hidden_nodes, j + 1)

\* add_node_order_to_subgraphs: node_order.index raises ValueError for a node the list
\* does not hold
add_node_order_to_subgraphs(sgs, order) ==
    LET hidden_nodes == get_hidden_nodes(sgs, 1)
        raised ==
            \/ \E j \in DOMAIN hidden_nodes : ~(Range(hidden_nodes[j][2]) \subseteq Range(order))
            \/ \E i \in DOMAIN sgs : \E n \in sgs[i].nodes :
                  "hidden" \notin DOMAIN sgs[i].node[n] /\ n \notin Range(order)
        new_order == InsertHiddenNodes(order, hidden_nodes, 1)
    IN  IF raised
        THEN [raised |-> TRUE, node_order |-> order, sgs |-> sgs]
        ELSE [raised |-> FALSE,
              node_order |-> new_order,
              sgs |-> [i \in DOMAIN sgs |->
                         [sgs[i] EXCEPT !.node =
                             [n \in sgs[i].nodes |->
                                 DictSet(sgs[i].node[n], "order", ListIndex(new_order, n) + 1)]]]]

\* ------------------------------------------------------------ color.py
\* utils.merge_dictionaries: a key takes the value of the last dictionary that has it
merge_dictionaries(dictionaries) ==
    [key \in UNION {DOMAIN dictionaries[i] : i \in DOMAIN dictionaries} |->
        dictionaries[Max({i \in DOMAIN dictionaries : key \in DOMAIN dictionaries[i]})][key]]

\* the color of the node scanned last is kept
set_cluster_color_always(c2c, node, clusters, colors) ==
    IF node \in DOMAIN colors THEN DictSet(c2c, clusters[1], colors[node]) ELSE c2c

\* one pass of the first loop: the first cluster of the node gets the node's color,
\* unless the cluster has a color already or the node has none
set_cluster_color(c2c, node, clusters, colors) ==
    IF clusters[1] \notin DOMAIN c2c /\ node \in DOMAIN colors
    THEN DictSet(c2c, clusters[1], colors[node])
    ELSE c2c

RECURSIVE BuildClusterToColor(_, _, _, _, _)
BuildClusterToColor(scan, i, cpn, colors, c2c) ==
    IF i > Len(scan) THEN c2c
    ELSE BuildClusterToColor(scan, i + 1, cpn, colors,
                             set_cluster_color(c2c, scan[i], cpn[scan[i]], colors))

\* a cluster without a color is drawn black
color_of_cluster_or_black(c2c, cluster) ==
    IF cluster \in DOMAIN c2c THEN <<c2c[cluster]>> ELSE <<"black">>

\* cluster_to_color[cluster]: <<color>>, or <<>> where Python raises KeyError
color_of_cluster(c2c, cluster) ==
    IF cluster \in DOMAIN c2c THEN <<c2c[cluster]>> ELSE <<>>

\* the color of the first cluster only
color_of_first_cluster(c2c, clusters) == <<color_of_cluster(c2c, clusters[1])>>

\* [cluster_to_color[cluster] for cluster in clusters]
colors_of_clusters(c2c, clusters) == [k \in DOMAIN clusters |-> color_of_cluster(c2c, clusters[k])]

\* ','.join(colors): the joined string, as the list of the colors it holds (no color
\* holds a comma)
JoinColors(looked_up) == [k \in DOMAIN looked_up |-> looked_up[k][1]]

\* get_colors_per_node_global; scan is the order of clusters_per_node.items()
get_colors_per_node_global(colors, cpn_per_graph, scan) ==
    LET cpn == merge_dictionaries(cpn_per_graph)
        c2c == BuildClusterToColor(scan, 1, cpn, colors, <<>>)
        looked_up == [node \in DOMAIN cpn |-> colors_of_clusters(c2c, cpn[node])]
        raised == \E node \in DOMAIN cpn : \E k \in DOMAIN looked_up[node] :
                     looked_up[node][k] = <<>>
    IN  IF DOMAIN cpn = {}
        THEN [raised |-> FALSE, cluster_to_color |-> <<>>,
              colors_per_node |-> [node \in DOMAIN colors |-> <<colors[node]>>]]
        ELSE IF raised
        THEN [raised |-> TRUE, cluster_to_color |-> c2c, colors_per_node |-> <<>>]
        ELSE [raised |-> FALSE, cluster_to_color |-> c2c,
              colors_per_node |-> [node \in DOMAIN cpn |-> JoinColors(looked_up[node])]]

\* graph.add_node_attribute_to_subgraphs: only the nodes the dictionary has get the attribute
add_node_attribute_to_subgraphs(nodes, dictionary) ==
    [node \in nodes \cap DOMAIN dictionary |-> dictionary[node]]

\* ------------------------------------------------------------ file_io.py: frame windows
\* nx.union_all(sub_graphs): the nodes of every sub-graph, each with its attributes
union_all(sgs) ==
    LET nodes == UNION {sgs[i].nodes : i \in DOMAIN sgs}
    IN  [nodes |-> nodes,
         node  |-> [n \in nodes |-> sgs[CHOOSE i \in DOMAIN sgs : n \in sgs[i].nodes].node[n]]]

\* the nodes by ascending id
sorted_by_id(graph) == SortedInts(graph.nodes)

\* sorted(graph.nodes(data=True), key=lambda node: node[1]['order'])
RECURSIVE SortedByOrder(_, _)
SortedByOrder(nodes, attrs) ==
    IF nodes = {} THEN <<>>
    ELSE LET first == CHOOSE n \in nodes :
                         \A m \in nodes \ {n} :
                            \/ attrs[n]["order"] < attrs[m]["order"]
                            \/ (attrs[n]["order"] = attrs[m]["order"] /\ n < m)
         IN  <<first>> \o SortedByOrder(nodes \ {first}, attrs)

sorted_by_order(graph) == SortedByOrder(graph.nodes, graph.node)

\* the last frame id, without the trailing frames
last_frame_id_without_trailing(node_count, trailing) == node_count

\* len(sorted_nodes) + trailing_frame_count
last_frame_id(node_count, trailing) == node_count + trailing

\* the 1-based position in the sorted list
frame_position_one_based(i) == i

\* enumerate() counts from 0: the frame of the i-th entry (i from 1) of the sorted list
frame_position(i) == i - 1

get_frame_start_and_count(full_graph, partition, trailing) ==
    LET sorted_nodes == sorted_by_order(full_graph)
        ordered_assignments ==
            [i \in DOMAIN sorted_nodes |-> full_graph.node[sorted_nodes[i]]["partition"]]
        partition_frame_start ==
            SortedInts({frame_position(i) : i \in {j \in DOMAIN ordered_assignments :
                                                       ordered_assignments[j] = partition}})
        partition_frame_start_extended ==
            Append(partition_frame_start, last_frame_id(Len(sorted_nodes), trailing))
        partition_frame_count ==
            [i \in DOMAIN partition_frame_start |->
                partition_frame_start_extended[i + 1] - partition_frame_start_extended[i]]
    IN  <<partition_frame_start, partition_frame_count>>

\* write_dgs_file: the 'an' line of every node of the sub-graph, in the order written;
\* partition_frame_start[index] raises IndexError past the end of the list
write_dgs_file(graph, full_graph, trailing) ==
    LET partition == graph.partition
        frames == get_frame_start_and_count(full_graph, partition, trailing)
        sorted_nodes == sorted_by_order(graph)
    IN  [partition |-> partition,
         starts    |-> frames[1],
         counts    |-> frames[2],
         raised    |-> Len(sorted_nodes) > Len(frames[1]),
         an        |-> [index \in 1..Min({Len(sorted_nodes), Len(frames[1])}) |->
                           [node   |-> sorted_nodes[index],
                            fs     |-> frames[1][index],
                            fc     |-> frames[2][index],
                            hidden |-> IF "hidden" \in DOMAIN graph.node[sorted_nodes[index]]
                                       THEN 1 ELSE 0]]]

\* ------------------------------------------------------------ file_io.py: the lines of a DGS file
\* graph.edges(node_id): (node_id, neighbor) for every neighbor of the node; the
\* adjacency is walked by ascending id, or by descending id if reversed
edges_of_node(graph, node_id, reversed) ==
    LET neighbors == SortedInts({m \in graph.nodes : \/ <<node_id, m>> \in graph.edges
                                                      \/ <<m, node_id>> \in graph.edges})
    IN  [j \in DOMAIN neighbors |->
            <<node_id, neighbors[IF reversed THEN Len(neighbors) + 1 - j ELSE j]>>]

\* an edge is written as soon as it has not been written from this side
is_edge_new(edge1_id, edge2_id, nodes_added, edges_added) ==
    <<edge1_id, edge2_id>> \notin edges_added

\* edge1_id in nodes_added and edge2_id in nodes_added and (edge1_id, edge2_id) not in edges_added
is_edge_to_add(edge1_id, edge2_id, nodes_added, edges_added) ==
    /\ edge1_id \in nodes_added
    /\ edge2_id \in nodes_added
    /\ <<edge1_id, edge2_id>> \notin edges_added

\* the inner loop of write_dgs_file over graph.edges(node_id), from its j-th edge on.
\* w = [lines, i, st, nodes_added, edges_added]
RECURSIVE WriteEdgesOfNode(_, _, _)
WriteEdgesOfNode(w, edges, j) ==
    IF j > Len(edges) THEN w
    ELSE LET edge1_id == edges[j][2]
             edge2_id == edges[j][1]
         IN  IF is_edge_to_add(edge1_id, edge2_id, w.nodes_added, w.edges_added)
             THEN WriteEdgesOfNode(
                      [w EXCEPT !.lines = Append(@, <<"ae", w.i, edge1_id, edge2_id>>),
                                !.edges_added = @ \cup {<<edge1_id, edge2_id>>},
                                !.i = @ + 1],
                      edges, j + 1)
             ELSE WriteEdgesOfNode(w, edges, j + 1)

\* the outer loop, from the node at position index (from 1) of sorted_nodes on
RECURSIVE WriteNodes(_, _, _, _, _)
WriteNodes(w, graph, an, index, reversed) ==
    IF index > Len(an) THEN w
    ELSE LET node_id == an[index].node
             with_node == [w EXCEPT !.lines = Append(@, <<"an", node_id, an[index].fs,
                                                           an[index].fc>>),
                                    !.nodes_added = @ \cup {node_id}]
             with_edges == WriteEdgesOfNode(with_node,
                                            edges_of_node(graph, node_id, reversed), 1)
         IN  WriteNodes([with_edges EXCEPT !.lines = Append(@, <<"st", with_edges.st>>),
                                           !.st = @ + 1],
                        graph, an, index + 1, reversed)

\* write_dgs_file: the an, ae and st lines of the file, in the order written
write_dgs_file_lines(graph, full_graph, trailing, reversed) ==
    LET file == CHOOSE written \in {write_dgs_file(graph, full_graph, trailing)} : TRUE
    IN  [partition |-> file.partition,
         raised    |-> file.raised,
         lines     |-> WriteNodes([lines |-> <<>>, i |-> 0, st |-> 1,
                                   nodes_added |-> {}, edges_added |-> {}],
                                  graph, file.an, 1, reversed).lines]

\* ------------------------------------------------------------ cluster.py
\* the cluster ids a dictionary node -> list of cluster ids uses
ClusterValues(clusters_per_node) == UNION {Range(clusters_per_node[n]) : n \in DOMAIN clusters_per_node}

\* max() of an empty sequence raises ValueError
MaxOfNothing(clusters_per_node) == ClusterValues(clusters_per_node) = {}

get_max_cluster_value(clusters_per_node) == Max(ClusterValues(clusters_per_node))

\* the homeless cluster takes an id some mapped node already has
homeless_cluster_id_reused(max_cluster) == max_cluster

\* homeless_cluster_id = max_cluster + 1
homeless_cluster_id(max_cluster) == max_cluster + 1

\* homeless_nodes: the nodes of the graph that are no key of the dictionary
homeless_nodes(nodes, cpn) == {node \in nodes : node \notin DOMAIN cpn}

\* every node of the graph gets the homeless cluster, mapped or not
create_cluster_for_all_nodes(nodes, cpn) ==
    IF MaxOfNothing(cpn)
    THEN [raised |-> TRUE, clusters |-> cpn]
    ELSE [raised |-> FALSE,
          clusters |-> [node \in DOMAIN cpn \cup nodes |->
                           IF node \in nodes
                           THEN <<homeless_cluster_id(get_max_cluster_value(cpn))>>
                           ELSE cpn[node]]]

\* create_cluster_for_homeless_nodes: max() runs first and raises on a dictionary
\* without cluster ids; otherwise every homeless node gets [homeless_cluster_id]
create_cluster_for_homeless_nodes(nodes, cpn) ==
    IF MaxOfNothing(cpn)
    THEN [raised |-> TRUE, clusters |-> cpn]
    ELSE [raised |-> FALSE,
          clusters |-> [node \in DOMAIN cpn \cup homeless_nodes(nodes, cpn) |->
                           IF node \in DOMAIN cpn
                           THEN cpn[node]
                           ELSE <<homeless_cluster_id(get_max_cluster_value(cpn))>>]]

\* ------------------------------------------------------------ cluster.py: add_clusters_to_graph
\* utils.prune_invalid_keys_from_dictionary: the dictionary without the keys that are
\* not valid
prune_invalid_keys_from_dictionary(valid_keys, dictionary) ==
    [key \in DOMAIN dictionary \cap valid_keys |-> dictionary[key]]

\* the last cluster of the list
last_cluster(clusters) == clusters[Len(clusters)]

\* v[0]: gvmap only supports a single cluster per node
first_cluster(clusters) == clusters[1]

\* nx.set_node_attributes(graph, name, values): the nodes of the graph that are keys
\* of the dictionary get the attribute
add_node_attribute_to_graph(graph, attribute_name, dictionary) ==
    [graph EXCEPT !.node =
        [n \in graph.nodes |->
            IF n \in DOMAIN dictionary
            THEN DictSet(graph.node[n], attribute_name, dictionary[n])
            ELSE graph.node[n]]]

\* add_clusters_to_graph: [sgs, clusters], the sub-graphs with their cluster attribute
\* and the dictionaries pruned in place
add_clusters_to_graph(sgs, cpn_per_graph) ==
    LET pruned == [index \in DOMAIN cpn_per_graph |->
                      prune_invalid_keys_from_dictionary(sgs[index].nodes,
                                                         cpn_per_graph[index])]
        first_cluster_per_node(index) ==
            [node \in DOMAIN pruned[index] |-> first_cluster(pruned[index][node])]
    IN  [sgs |-> [index \in DOMAIN sgs |->
                     IF index \in DOMAIN cpn_per_graph
                     THEN add_node_attribute_to_graph(sgs[index], "cluster",
                                                      first_cluster_per_node(index))
                     ELSE sgs[index]],
         clusters |-> pruned]

\* ------------------------------------------------------------ genGraphStream.py: run_clustering
\* every node is put in cluster 1
one_cluster_for_all(order) == [node \in Range(order) |-> <<1>>]

\* the zero-edge branch: the k-th node of graph.nodes() is put in cluster k
cluster_per_node(order) ==
    [node \in Range(order) |-> <<CHOOSE k \in DOMAIN order : order[k] = node>>]

\* only the first cluster of the list is incremented
IncrementFirstCluster(clusters, cluster_increment) ==
    [k \in DOMAIN clusters |-> IF k = 1 THEN clusters[k] + cluster_increment ELSE clusters[k]]

\* [cluster + cluster_increment for cluster in clusters]
IncrementClusters(clusters, cluster_increment) ==
    [k \in DOMAIN clusters |-> clusters[k] + cluster_increment]

\* cluster_increment = max_cluster instead of +=
NextClusterIncrementAssigned(cluster_increment, max_cluster) == max_cluster

\* the maximum taken after the ids were incremented
NextClusterIncrementPostShift(cluster_increment, max_cluster) ==
    cluster_increment + (max_cluster + cluster_increment)

\* cluster_increment += max_cluster
NextClusterIncrement(cluster_increment, max_cluster) == cluster_increment + max_cluster

\* The loop from list index `index` (0-based) on.
\* st = [clusters, mapping, cluster_increment, raised]
RECURSIVE ConvertFrom(_, _)
ConvertFrom(st, index) ==
    IF index >= Len(st.clusters) THEN st
    ELSE LET clusters_per_node == st.clusters[index + 1]
         IN  IF MaxOfNothing(clusters_per_node) THEN [st EXCEPT !.raised = TRUE]
             ELSE LET max_cluster == get_max_cluster_value(clusters_per_node)
                      incremented == [node \in DOMAIN clusters_per_node |->
                                         IncrementClusters(clusters_per_node[node],
                                                           st.cluster_increment)]
                  IN  ConvertFrom([clusters          |-> [st.clusters EXCEPT ![index + 1] = incremented],
                                   mapping           |-> DictSet(st.mapping, index, st.cluster_increment),
                                   cluster_increment |-> NextClusterIncrement(st.cluster_increment,
                                                                              max_cluster),
                                   raised            |-> FALSE],
                                  index + 1)

do_local_to_global_cluster_conversion(clusters) ==
    ConvertFrom([clusters |-> clusters, mapping |-> <<>>, cluster_increment |-> 0, raised |-> FALSE], 0)

\* ------------------------------------------------------------ idle halves
NoOrder ==
    /\ order_in = <<>>
    /\ node_order = <<>>

NoClustering ==
    /\ graph_nodes = {}
    /\ graph_edges = {}
    /\ clustering = "none"
    /\ clusters_found = <<>>
    /\ clusters_fixed = <<>>
    /\ external_calls = <<>>

NoFrames ==
    /\ trailing_frame_count = 0
    /\ dgs = <<>>

NoColors ==
    /\ color_per_node = <<>>
    /\ scan_order = <<>>
    /\ cluster_to_color = <<>>
    /\ colors_per_node = <<>>
    /\ fillcolor = <<>>

NoMain ==
    /\ parsed_args = <<>>
    /\ args = <<>>
    /\ logged_errors = <<>>
    /\ exit_status = 0

NoRandomAssignments ==
    /\ random_graph = {}
    /\ filter_file = FALSE
    /\ filter_values = <<>>
    /\ tpwgts = <<>>
    /\ random_result = <<>>

NoTiles ==
    /\ frames_found = <<>>
    /\ fps = 0
    /\ tiled = <<>>

NoSplit ==
    /\ input_nodes = {}
    /\ input_edges = {}
    /\ assignments = <<>>
    /\ partitions = <<>>
    /\ sub_graphs = <<>>
    /\ scheme = "none"
    /\ created = <<>>

NoClusters ==
    /\ clusters_in = <<>>
    /\ clusters_per_node_per_graph = <<>>
    /\ local_to_global_cluster_mapping = <<>>

\* ------------------------------------------------------------ the split stage
\* An undirected graph without self-loops, as a METIS file describes it: each edge is
\* listed once, in one orientation
IsGraph(nodes, edges) ==
    /\ \A e \in edges : e[1] \in nodes /\ e[2] \in nodes /\ e[1] # e[2]
    /\ \A e \in edges : Reversed(e) \notin edges

Init ==
    /\ input_nodes \in SUBSET NodeIds \ {{}}
    /\ input_edges \in {E \in SUBSET (input_nodes \X input_nodes) :
                            Cardinality(E) <= MaxEdges /\ IsGraph(input_nodes, E)}
    /\ assignments \in [input_nodes -> PartitionIds \cup {-1}]
    /\ partitions = get_partitions(assignments)
    /\ sub_graphs = <<>>
    /\ scheme = "none"
    /\ created = <<>>
    /\ NoClusters
    /\ NoOrder
    /\ NoClustering
    /\ NoFrames
    /\ NoColors
    /\ NoMain
    /\ NoRandomAssignments
    /\ NoTiles
    /\ pc = "start"

\* split_graph, first statement: graph.create_sub_graphs
CreateSubGraphs ==
    /\ pc = "start"
    /\ LET as_listed == create_sub_graphs(input_nodes, input_edges, partitions, assignments, {})
           copied == UNION {as_listed[i].edges : i \in DOMAIN as_listed}
       IN  \E flipped \in SUBSET copied :
              sub_graphs' = create_sub_graphs(input_nodes, input_edges, partitions,
                                              assignments, flipped)
    /\ pc' = "created"
    /\ UNCHANGED <<input_nodes, input_edges, assignments, partitions, scheme, created, not_split_vars>>

\* split_graph with scheme == 'cut-edges': graph.add_cut_edges_to_subgraphs
AddCutEdges ==
    /\ pc = "created"
    /\ scheme' = "cut-edges"
    /\ LET st == add_cut_edges_to_subgraphs(input_nodes, input_edges, sub_graphs,
                                            assignments, CutEdgeNodeSize)
       IN  /\ sub_graphs' = st.sgs
           /\ assignments' = st.assignments
           /\ created' = st.created
    /\ pc' = "split"
    /\ UNCHANGED <<input_nodes, input_edges, partitions, not_split_vars>>

\* split_graph with any other scheme: the sub-graphs stay as created
SkipCutEdges ==
    /\ pc = "created"
    /\ scheme' \in Schemes \ {"cut-edges"}
    /\ pc' = "split"
    /\ UNCHANGED <<input_nodes, input_edges, assignments, partitions, sub_graphs, created, not_split_vars>>

Next == CreateSubGraphs \/ AddCutEdges \/ SkipCutEdges

Spec == Init /\ [][Next]_vars

\* ------------------------------------------------------------ the cluster id namespacer
\* ordered membership lists: one or more local cluster ids, none repeated
MembershipLists ==
    {l \in UNION {[1..k -> ClusterIds] : k \in 1..MaxClusterId} :
        \A i, j \in DOMAIN l : i # j => l[i] # l[j]}

\* The per-partition maps handed to the conversion: every node belongs to at most one
\* partition; a partition may have no node in its map.
InitCluster ==
    /\ \E g \in 0..MaxGraphs :
       \E owner \in [ClusterNodeIds -> 0..g] :
       \E membership \in [ClusterNodeIds -> MembershipLists] :
          clusters_in = [i \in 1..g |->
                            [n \in {x \in ClusterNodeIds : owner[x] = i} |-> membership[n]]]
    /\ clusters_per_node_per_graph = clusters_in
    /\ local_to_global_cluster_mapping = <<>>
    /\ NoSplit
    /\ NoOrder
    /\ NoClustering
    /\ NoFrames
    /\ NoColors
    /\ NoMain
    /\ NoRandomAssignments
    /\ NoTiles
    /\ pc = "clusters"

\* create_clusters: cluster.do_local_to_global_cluster_conversion(clusters_per_node_per_graph)
DoLocalToGlobalClusterConversion ==
    /\ pc = "clusters"
    /\ LET st == do_local_to_global_cluster_conversion(clusters_per_node_per_graph)
       IN  /\ clusters_per_node_per_graph' = st.clusters
           /\ IF st.raised
              THEN /\ pc' = "failed"
                   /\ UNCHANGED local_to_global_cluster_mapping
              ELSE /\ pc' = "converted"
                   /\ local_to_global_cluster_mapping' = st.mapping
    /\ UNCHANGED <<clusters_in, not_cluster_vars>>

NextCluster == DoLocalToGlobalClusterConversion

SpecCluster == InitCluster /\ [][NextCluster]_vars

\* ------------------------------------------------------------ clustering of one sub-graph
ClusteringMethods == {"oslom2", "infomap"}

\* what read_oslom2_tp_file / read_infomap_tree_file can return for a graph: membership
\* lists for some of its nodes (the tools need not report every node)
ToolResults(nodes) == UNION {[D -> MembershipLists] : D \in SUBSET nodes}

\* perform_clustering, one iteration: the sub-graph without hidden nodes (scheme
\* 'communities' adds none) and the method create_clusters passes on
InitClustering ==
    /\ graph_nodes \in SUBSET ClusterNodeIds \ {{}}
    /\ graph_edges \in SUBSET {e \in graph_nodes \X graph_nodes : e[1] < e[2]}
    /\ clustering \in ClusteringMethods
    /\ clusters_found = <<>>
    /\ clusters_fixed = <<>>
    /\ external_calls = <<>>
    /\ NoSplit
    /\ NoClusters
    /\ NoOrder
    /\ NoFrames
    /\ NoColors
    /\ NoMain
    /\ NoRandomAssignments
    /\ NoTiles
    /\ pc = "clustering"

\* run_clustering
RunClustering ==
    /\ pc = "clustering"
    /\ IF Cardinality(graph_edges) = 0
       THEN /\ \E order \in NodeOrders(graph_nodes) : clusters_found' = cluster_per_node(order)
            /\ UNCHANGED external_calls
       ELSE /\ clusters_found' \in ToolResults(graph_nodes)
            /\ external_calls' = Append(external_calls, clustering)
    /\ clusters_fixed' = clusters_found'
    /\ pc' = "clustered"
    /\ UNCHANGED <<graph_nodes, graph_edges, clustering, not_clustering_vars>>

\* perform_clustering: cluster.create_cluster_for_homeless_nodes(graph, clusters_per_node)
CreateClusterForHomelessNodes ==
    /\ pc = "clustered"
    /\ LET st == create_cluster_for_homeless_nodes(graph_nodes, clusters_fixed)
       IN  /\ clusters_fixed' = st.clusters
           /\ pc' = IF st.raised THEN "failed" ELSE "fixed"
    /\ UNCHANGED <<graph_nodes, graph_edges, clustering, clusters_found, external_calls,
                   not_clustering_vars>>

NextClustering == RunClustering \/ CreateClusterForHomelessNodes

SpecClustering == InitClustering /\ [][NextClustering]_vars

\* ------------------------------------------------------------ the frame windows
\* list.index(node) + 1
OrderOf(order, node) == CHOOSE i \in DOMAIN order : order[i] = node

\* The sub-graphs as split_graph leaves them: nodes 1..k, each in one partition; node k
\* may be a placeholder (placeholders get the ids above every node of the input graph)
\* of a partition that has another node; node_order lists every node once, and may
\* still hold an excluded node (0) that filter_node_order left behind.
InitFrames ==
    /\ \E k \in FrameNodeIds :
       \E part \in [1..k -> PartitionIds] :
       \E placeholder \in {h \in {0, k} : h = 0 \/ \E n \in 1..(k - 1) : part[n] = part[k]} :
       \E leftover \in SUBSET {0} :
          /\ input_nodes = (1..k) \ {placeholder}
          /\ assignments = part
          /\ partitions = get_partitions(part)
          /\ node_order \in NodeOrders((1..k) \cup leftover)
          /\ sub_graphs =
                [i \in 1..Len(partitions) |->
                    LET nodes == {n \in 1..k : part[n] = partitions[i]}
                    IN  [partition |-> partitions[i],
                         nodes     |-> nodes,
                         edges     |-> IF placeholder \in nodes
                                       THEN {<<Min(nodes), placeholder>>} ELSE {},
                         node      |-> [n \in nodes |->
                                          IF n = placeholder
                                          THEN [hidden    |-> 1,
                                                size      |-> CutEdgeNodeSize,
                                                partition |-> partitions[i],
                                                order     |-> OrderOf(node_order, n)]
                                          ELSE [partition |-> partitions[i],
                                                order     |-> OrderOf(node_order, n)]]]]
    /\ input_edges = {}
    /\ scheme \in Schemes
    /\ created = <<>>
    /\ order_in = <<>>
    /\ trailing_frame_count \in 0..MaxTrailing
    /\ dgs = <<>>
    /\ NoClusters
    /\ NoClustering
    /\ NoColors
    /\ NoMain
    /\ NoRandomAssignments
    /\ NoTiles
    /\ pc = "frames"

\* create_dgs_file_and_generate_frames: file_io.write_dgs_file for the next sub-graph
WriteDgsFile ==
    /\ pc = "frames"
    /\ Len(dgs) < Len(sub_graphs)
    /\ LET file == write_dgs_file(sub_graphs[Len(dgs) + 1], union_all(sub_graphs),
                                  trailing_frame_count)
       IN  /\ dgs' = Append(dgs, file)
           /\ pc' = IF file.raised THEN "failed"
                    ELSE IF Len(dgs') = Len(sub_graphs) THEN "written" ELSE "frames"
    /\ UNCHANGED <<trailing_frame_count, not_frame_vars>>

NextFrames == WriteDgsFile

SpecFrames == InitFrames /\ [][NextFrames]_vars

\* ------------------------------------------------------------ the coloring
SubSeqOf(l, from, to) == [i \in 1..(to - from + 1) |-> l[from + i - 1]]

\* perform_coloring after create_clusters: two sub-graphs over the nodes ClusterNodeIds;
\* some nodes are clustered, each in the dictionary of its own sub-graph, and gvmap
\* gave some nodes a color. The merged dictionary lists the first sub-graph's nodes (one
\* node, if any is clustered), then the second's.
InitColor ==
    /\ \E D \in SUBSET ClusterNodeIds :
       \E membership \in [D -> MembershipLists] :
       \E scan \in NodeOrders(D) :
       \E j \in {Min({1, Len(scan)})} :
          /\ scan_order = scan
          /\ clusters_per_node_per_graph =
                <<[n \in Range(SubSeqOf(scan, 1, j)) |-> membership[n]],
                  [n \in Range(SubSeqOf(scan, j + 1, Len(scan))) |-> membership[n]]>>
    /\ clusters_in = clusters_per_node_per_graph
    /\ local_to_global_cluster_mapping = <<>>
    /\ color_per_node \in UNION {[C -> Colors] : C \in SUBSET ClusterNodeIds}
    /\ cluster_to_color = <<>>
    /\ colors_per_node = <<>>
    /\ fillcolor = <<>>
    /\ NoSplit
    /\ NoOrder
    /\ NoClustering
    /\ NoFrames
    /\ NoMain
    /\ NoRandomAssignments
    /\ NoTiles
    /\ pc = "coloring"

\* perform_coloring
PerformColoring ==
    /\ pc = "coloring"
    /\ \E node_color \in NodeColors :
          IF node_color # ""
          THEN /\ colors_per_node' = [node \in ClusterNodeIds |-> <<node_color>>]
               /\ fillcolor' = add_node_attribute_to_subgraphs(ClusterNodeIds, colors_per_node')
               /\ pc' = "uniform"
               /\ UNCHANGED cluster_to_color
          ELSE LET st == get_colors_per_node_global(color_per_node,
                                                    clusters_per_node_per_graph, scan_order)
               IN  /\ cluster_to_color' = st.cluster_to_color
                   /\ IF st.raised
                      THEN /\ pc' = "failed"
                           /\ UNCHANGED <<colors_per_node, fillcolor>>
                      ELSE /\ colors_per_node' = st.colors_per_node
                           /\ fillcolor' = add_node_attribute_to_subgraphs(ClusterNodeIds,
                                                                           colors_per_node')
                           /\ pc' = "colored"
    /\ UNCHANGED <<color_per_node, scan_order, not_color_vars>>

NextColor == PerformColoring

SpecColor == InitColor /\ [][NextColor]_vars

\* ------------------------------------------------------------ the node order filter
\* split_graph up to get_node_order: the order file, or the shuffle, lists every node once
InitOrder ==
    /\ input_nodes \in SUBSET NodeIds \ {{}}
    /\ input_edges = {}
    /\ assignments \in [input_nodes -> PartitionIds \cup {-1}]
    /\ partitions = get_partitions(assignments)
    /\ sub_graphs = <<>>
    /\ scheme = "none"
    /\ created = <<>>
    /\ order_in \in NodeOrders(input_nodes)
    /\ node_order = order_in
    /\ NoClusters
    /\ NoClustering
    /\ NoFrames
    /\ NoColors
    /\ NoMain
    /\ NoRandomAssignments
    /\ NoTiles
    /\ pc = "order"

\* split_graph: filter_node_order(node_order, assignments)
FilterNodeOrder ==
    /\ pc = "order"
    /\ node_order' = filter_node_order(node_order, assignments)
    /\ pc' = "filtered"
    /\ UNCHANGED <<order_in, not_order_vars>>

NextOrder == FilterNodeOrder

SpecOrder == InitOrder /\ [][NextOrder]_vars

\* ------------------------------------------------------------ the node order of the sub-graphs
\* split_graph with scheme 'cut-edges', up to filter_node_order: the sub-graphs with their
\* placeholders, and the node order as filter_node_order left it. Each edge of the input
\* graph is taken in the orientation lower id first.
InitNodeOrder ==
    /\ input_nodes \in SUBSET NodeIds \ {{}}
    /\ input_edges \in {E \in SUBSET {e \in input_nodes \X input_nodes : e[1] < e[2]} :
                            Cardinality(E) <= MaxEdges}
    /\ \E a \in [input_nodes -> PartitionIds \cup {-1}] :
          LET parts == get_partitions(a)
              st == add_cut_edges_to_subgraphs(
                        input_nodes, input_edges,
                        create_sub_graphs(input_nodes, input_edges, parts, a, {}),
                        a, CutEdgeNodeSize)
          IN  /\ partitions = parts
              /\ sub_graphs = st.sgs
              /\ assignments = st.assignments
              /\ created = st.created
    /\ scheme = "cut-edges"
    /\ order_in \in NodeOrders(input_nodes)
    /\ node_order = filter_node_order(order_in, assignments)
    /\ NoClusters
    /\ NoClustering
    /\ NoFrames
    /\ NoColors
    /\ NoMain
    /\ NoRandomAssignments
    /\ NoTiles
    /\ pc = "ordering"

\* split_graph: graph.add_node_order_to_subgraphs(sub_graphs, node_order)
AddNodeOrderToSubgraphs ==
    /\ pc = "ordering"
    /\ LET st == add_node_order_to_subgraphs(sub_graphs, node_order)
       IN  /\ node_order' = st.node_order
           /\ sub_graphs' = st.sgs
           /\ pc' = IF st.raised THEN "failed" ELSE "ordered"
    /\ UNCHANGED <<input_nodes, input_edges, assignments, partitions, scheme, created,
                   order_in, cluster_vars, clustering_vars, frame_vars, color_vars,
                   main_vars, random_vars, tile_vars>>

NextNodeOrder == AddNodeOrderToSubgraphs

SpecNodeOrder == InitNodeOrder /\ [][NextNodeOrder]_vars

\* ------------------------------------------------------------ the lines of the DGS files
\* split_graph with scheme 'cut-edges' done: every node is in a partition, the sub-graphs
\* have their placeholders and every node has its order
InitDgs ==
    /\ input_nodes \in SUBSET NodeIds \ {{}}
    /\ input_edges \in {E \in SUBSET {e \in input_nodes \X input_nodes : e[1] < e[2]} :
                            Cardinality(E) <= MaxEdges}
    /\ order_in \in NodeOrders(input_nodes)
    /\ \E a \in [input_nodes -> PartitionIds] :
       \E created_sub_graphs \in {create_sub_graphs(input_nodes, input_edges,
                                                    get_partitions(a), a, {})} :
       \E cut \in {add_cut_edges_to_subgraphs(input_nodes, input_edges, created_sub_graphs,
                                              a, CutEdgeNodeSize)} :
       \E filtered \in {filter_node_order(order_in, cut.assignments)} :
       \E ordered \in {add_node_order_to_subgraphs(cut.sgs, filtered)} :
          /\ partitions = get_partitions(a)
          /\ sub_graphs = ordered.sgs
          /\ node_order = ordered.node_order
          /\ assignments = cut.assignments
          /\ created = cut.created
    /\ scheme = "cut-edges"
    /\ trailing_frame_count = MaxTrailing
    /\ dgs = <<>>
    /\ NoClusters
    /\ NoClustering
    /\ NoColors
    /\ NoMain
    /\ NoRandomAssignments
    /\ NoTiles
    /\ pc = "dgs"

\* create_dgs_file_and_generate_frames: file_io.write_dgs_file for the next sub-graph
WriteDgsFileLines ==
    /\ pc = "dgs"
    /\ Len(dgs) < Len(sub_graphs)
    /\ \E reversed \in BOOLEAN :
       \E full_graph \in {union_all(sub_graphs)} :
       \E file \in {write_dgs_file_lines(sub_graphs[Len(dgs) + 1], full_graph,
                                         trailing_frame_count, reversed)} :
              /\ dgs' = Append(dgs, file)
              /\ pc' = IF file.raised THEN "failed"
                       ELSE IF Len(dgs') = Len(sub_graphs) THEN "written" ELSE "dgs"
    /\ UNCHANGED <<trailing_frame_count, not_frame_vars>>

NextDgs == WriteDgsFileLines

SpecDgs == InitDgs /\ [][NextDgs]_vars

\* ------------------------------------------------------------ the cluster attribute
\* create_clusters before add_clusters_to_graph: one or two sub-graphs over the nodes
\* ClusterNodeIds, none empty, and one dictionary per sub-graph; a dictionary may have
\* keys that are no node of its sub-graph
InitAddClusters ==
    /\ \E g \in 1..2 :
       \E graph_of \in [ClusterNodeIds -> 1..g] :
       \E map_of \in [ClusterNodeIds -> 0..g] :
       \E membership \in [ClusterNodeIds -> MembershipLists] :
          /\ \A i \in 1..g : \E n \in ClusterNodeIds : graph_of[n] = i
          /\ partitions = [i \in 1..g |-> i - 1]
          /\ sub_graphs =
                [i \in 1..g |->
                    [partition |-> i - 1,
                     nodes     |-> {n \in ClusterNodeIds : graph_of[n] = i},
                     edges     |-> {},
                     node      |-> [n \in {x \in ClusterNodeIds : graph_of[x] = i} |->
                                      [partition |-> i - 1]]]]
          /\ clusters_in =
                [i \in 1..g |->
                    [n \in {x \in ClusterNodeIds : map_of[x] = i} |-> membership[n]]]
    /\ clusters_per_node_per_graph = clusters_in
    /\ local_to_global_cluster_mapping = <<>>
    /\ input_nodes = ClusterNodeIds
    /\ input_edges = {}
    /\ assignments = [n \in ClusterNodeIds |->
                         sub_graphs[CHOOSE i \in DOMAIN sub_graphs :
                                       n \in sub_graphs[i].nodes].partition]
    /\ scheme = "communities"
    /\ created = <<>>
    /\ NoOrder
    /\ NoClustering
    /\ NoFrames
    /\ NoColors
    /\ NoMain
    /\ NoRandomAssignments
    /\ NoTiles
    /\ pc = "converted"

\* create_clusters: cluster.add_clusters_to_graph(sub_graphs, clusters_per_node_per_graph)
AddClustersToGraph ==
    /\ pc = "converted"
    /\ clusters_per_node_per_graph # <<>>
    /\ LET st == add_clusters_to_graph(sub_graphs, clusters_per_node_per_graph)
       IN  /\ sub_graphs' = st.sgs
           /\ clusters_per_node_per_graph' = st.clusters
    /\ pc' = "attributed"
    /\ UNCHANGED <<input_nodes, input_edges, assignments, partitions, scheme, created,
                   clusters_in, local_to_global_cluster_mapping,
                   order_vars, clustering_vars, frame_vars, color_vars,
                   main_vars, random_vars, tile_vars>>

NextAddClusters == AddClustersToGraph

SpecAddClusters == InitAddClusters /\ [][NextAddClusters]_vars

\* ------------------------------------------------------------ create_clusters, then perform_coloring
\* the loop of perform_clustering goes on after the first sub-graph only
clustering_started(cpn_per_graph, sgs) == Len(cpn_per_graph) >= 1

\* the loop of perform_clustering has gone through every sub-graph
clustering_done(cpn_per_graph, sgs) == Len(cpn_per_graph) = Len(sgs)

\* run() after split_graph, scheme 'communities' with oslom2 or infomap: one to three
\* sub-graphs over the nodes ClusterNodeIds, none empty; the input graph has no edge, or
\* an edge between every two nodes
InitCreateClusters ==
    /\ input_nodes = ClusterNodeIds
    /\ input_edges \in {{}, {e \in ClusterNodeIds \X ClusterNodeIds : e[1] < e[2]}}
    /\ \E g \in 1..3 :
       \E graph_of \in [ClusterNodeIds -> 1..g] :
          /\ \A i \in 1..g : \E n \in ClusterNodeIds : graph_of[n] = i
          /\ assignments = [n \in ClusterNodeIds |-> graph_of[n] - 1]
          /\ partitions = [i \in 1..g |-> i - 1]
          /\ sub_graphs =
                [i \in 1..g |->
                    [partition |-> i - 1,
                     nodes     |-> {n \in ClusterNodeIds : graph_of[n] = i},
                     edges     |-> {e \in input_edges : graph_of[e[1]] = i /\ graph_of[e[2]] = i},
                     node      |-> [n \in {x \in ClusterNodeIds : graph_of[x] = i} |->
                                      [partition |-> i - 1]]]]
    /\ scheme = "communities"
    /\ created = <<>>
    /\ NoClusters
    /\ NoOrder
    /\ NoClustering
    /\ NoFrames
    /\ NoColors
    /\ NoMain
    /\ NoRandomAssignments
    /\ NoTiles
    /\ pc = "perform_clustering"

\* perform_clustering, one pass of its loop: run_clustering on the next sub-graph, the
\* homeless fixup, and the append to the list
PerformClusteringStep ==
    /\ pc = "perform_clustering"
    /\ Len(clusters_per_node_per_graph) < Len(sub_graphs)
    /\ LET sub_graph == sub_graphs[Len(clusters_per_node_per_graph) + 1]
           visible == {n \in sub_graph.nodes : "hidden" \notin DOMAIN sub_graph.node[n]}
       IN  \E found \in IF Cardinality(sub_graph.edges) = 0
                         THEN {cluster_per_node(order) : order \in NodeOrders(visible)}
                         ELSE ToolResults(visible) :
           \E st \in {create_cluster_for_homeless_nodes(visible, found)} :
              IF st.raised
              THEN /\ pc' = "failed"
                   /\ UNCHANGED <<clusters_per_node_per_graph, clusters_in>>
              ELSE /\ clusters_per_node_per_graph' =
                          Append(clusters_per_node_per_graph, st.clusters)
                   /\ clusters_in' = clusters_per_node_per_graph'
                   /\ pc' = IF clustering_done(clusters_per_node_per_graph', sub_graphs)
                            THEN "clusters" ELSE "perform_clustering"
    /\ UNCHANGED <<local_to_global_cluster_mapping, not_cluster_vars>>

\* perform_coloring up to the reading of gvmap's output: the color gvmap gave each
\* node; items() of the merged dictionary goes sub-graph by sub-graph
ColorNodesWithGvmap ==
    /\ pc = "attributed"
    /\ color_per_node' \in UNION {[C -> Colors] : C \in SUBSET ClusterNodeIds}
    /\ \E scan \in NodeOrders(DOMAIN merge_dictionaries(clusters_per_node_per_graph)) :
          /\ \A a, b \in DOMAIN scan :
                a < b => \A i, j \in DOMAIN clusters_per_node_per_graph :
                            (scan[a] \in DOMAIN clusters_per_node_per_graph[i]
                             /\ scan[b] \in DOMAIN clusters_per_node_per_graph[j]) => i <= j
          /\ \A a, b \in DOMAIN scan : a < b => scan[a] < scan[b] \/
                \E i \in DOMAIN clusters_per_node_per_graph :
                    scan[a] \in DOMAIN clusters_per_node_per_graph[i]
                    /\ scan[b] \notin DOMAIN clusters_per_node_per_graph[i]
          /\ scan_order' = scan
    /\ pc' = "coloring"
    /\ UNCHANGED <<cluster_to_color, colors_per_node, fillcolor, not_color_vars>>

NextCreateClusters ==
    \/ PerformClusteringStep
    \/ DoLocalToGlobalClusterConversion
    \/ AddClustersToGraph
    \/ ColorNodesWithGvmap
    \/ PerformColoring

SpecCreateClusters == InitCreateClusters /\ [][NextCreateClusters]_vars

\* ------------------------------------------------------------ the command line
\* The options validate_arguments reads. An option argparse leaves at None is <<>>, one
\* with a value v is <<v>>; --random-assignments is a flag, and --scheme, --layout and
\* --node-size-mode always hold one of their choices. Floats are in thousandths.
Options ==
    {"assignments", "random_assignments", "nparts", "tpwgts", "ubvec", "scheme",
     "clustering", "cluster_seed", "infomap_calls", "cut_edge_length", "cut_edge_node_size",
     "layout", "force", "attraction", "repulsion", "video", "fps", "padding_time",
     "node_size_mode", "node_size", "min_node_size", "max_node_size"}

\* parse_arguments: the value of an option that is not on the command line
ParseDefault(o) ==
    CASE o = "random_assignments" -> FALSE
      [] o = "scheme" -> "communities"
      [] o = "layout" -> "springbox"
      [] o = "node_size_mode" -> "fixed"
      [] OTHER -> <<>>

\* the values an option is given on the command lines explored
GivenValues(o) ==
    CASE o = "assignments" -> {<<"assignments.txt">>}
      [] o = "random_assignments" -> {TRUE}
      [] o = "nparts" -> {<<0>>, <<1>>, <<2>>}
      [] o = "tpwgts" -> {<< <<500, 500>> >>, << <<500, 250>> >>}
      [] o = "ubvec" -> {<<1000>>, <<1500>>}
      [] o = "scheme" -> {"cut-edges"}
      [] o = "clustering" -> {<<"oslom2">>, <<"infomap">>, <<"graphviz">>}
      [] o = "cluster_seed" -> {<<7>>}
      [] o = "infomap_calls" -> {<<3>>}
      [] o = "cut_edge_length" -> {<<50>>, <<101>>}
      [] o = "cut_edge_node_size" -> {<<"7">>}
      [] o = "layout" -> {"linlog"}
      [] o = "force" -> {<<3000>>}
      [] o = "attraction" -> {<<20>>}
      [] o = "repulsion" -> {<<30>>}
      [] o = "video" -> {<<"out.mp4">>}
      [] o = "fps" -> {<<24>>}
      [] o = "padding_time" -> {<<1000>>}
      [] o = "node_size_mode" -> {"centrality", "highlight-new"}
      [] o = "node_size" -> {<<10>>}
      [] o = "min_node_size" -> {<<10>>}
      [] o = "max_node_size" -> {<<0>>, <<90>>}

RECURSIVE WithGiven(_, _)
\* the namespaces that give every option of the set given one of its values
WithGiven(namespace, given) ==
    IF given = {} THEN {namespace}
    ELSE LET o == CHOOSE x \in given : TRUE
         IN  UNION {WithGiven([namespace EXCEPT ![o] = v], given \ {o}) : v \in GivenValues(o)}

RECURSIVE OptionSets(_, _)
\* the sets of at most count options
OptionSets(options, count) ==
    IF count = 0 \/ options = {} THEN {{}}
    ELSE LET o == CHOOSE x \in options : TRUE
         IN  OptionSets(options \ {o}, count)
                \cup {G \cup {o} : G \in OptionSets(options \ {o}, count - 1)}

\* parse_arguments: the namespaces of the command lines giving at most count options;
\* -a and --random-assignments are mutually exclusive
ParsedNamespaces(count) ==
    UNION {WithGiven([o \in Options |-> ParseDefault(o)], given) :
              given \in {G \in OptionSets(Options, count) :
                            ~ {"assignments", "random_assignments"} \subseteq G}}

\* Python's truth value of an option: None, 0 and 0.0 are false
Truthy(v) == v # <<>> /\ v[1] # 0

IsNone(v) == v = <<>>

RECURSIVE Sum(_)
Sum(list) == IF list = <<>> THEN 0 ELSE list[1] + Sum(Tail(list))

\* errors.append(message) when the condition holds
AppendIf(errors, condition, message) == IF condition THEN Append(errors, message) ELSE errors

\* validate_arguments: the partitioning checks, made when --assignments is not given
PartitioningErrors(a) ==
    LET e1 == AppendIf(<<>>, IsNone(a.nparts),
                       "--nparts is required when not using --assignments")
        e2 == AppendIf(e1, IsNone(a.tpwgts),
                       "--tpwgts is required when not using --assignments")
        e3 == IF a.random_assignments
              THEN AppendIf(e2, ~IsNone(a.nparts) /\ a.nparts[1] <= 0,
                            "The --nparts value must be strictly positive")
              ELSE AppendIf(e2, ~IsNone(a.nparts) /\ a.nparts[1] <= 1,
                            "The --nparts value must be greater than 1")
        e4 == AppendIf(e3, ~IsNone(a.ubvec) /\ IsNone(a.nparts),
                       "The --ubvec option is only available with the --nparts option")
        e5 == AppendIf(e4, ~IsNone(a.ubvec) /\ a.ubvec[1] <= 1000,
                       "The --ubvec value must be greater than 1.0")
        e6 == AppendIf(e5, ~IsNone(a.tpwgts) /\ ~Truthy(a.nparts),
                       "The --tpwgts option is only available with the --nparts option")
        e7 == AppendIf(e6, ~IsNone(a.tpwgts) /\ Truthy(a.nparts)
                              /\ Len(a.tpwgts[1]) # a.nparts[1],
                       "The --tpwgts option requires a list of {} values (one value per partition)")
    IN  AppendIf(e7, ~IsNone(a.tpwgts) /\ Sum(a.tpwgts[1]) # 1000,
                 "The sum of --tpwgts values must be 1.0 (currently {})")

\* validate_arguments: the checks made for scheme 'communities'
CommunitiesErrors(a) ==
    LET e1 == AppendIf(<<>>, ~IsNone(a.clustering) /\ a.clustering = <<"graphviz">>
                                /\ Truthy(a.cluster_seed),
                       "The --cluster-seed option is not available with the graphviz clustering method")
        e2 == AppendIf(e1, ~IsNone(a.clustering) /\ a.clustering # <<"oslom2">>
                              /\ Truthy(a.infomap_calls),
                       "The --infomap-calls option is only available with the oslom2 clustering method")
        e3 == AppendIf(e2, Truthy(a.cut_edge_length),
                       "The --cut-edge-length option is only available with the cut-edges scheme")
    IN  AppendIf(e3, ~IsNone(a.cut_edge_node_size),
                 "The --cut-edge-node-size option is only available with the cut-edges scheme")

\* validate_arguments: the checks made for scheme 'cut-edges'
CutEdgesErrors(a) ==
    LET e1 == AppendIf(<<>>, Truthy(a.cut_edge_length)
                                /\ (a.cut_edge_length[1] < 0 \/ a.cut_edge_length[1] > 100),
                       "The --cut-edge-length value must be between 0 and 100")
        e2 == AppendIf(e1, ~IsNone(a.clustering),
                       "The --clustering option is only available with the communities scheme")
        e3 == AppendIf(e2, Truthy(a.cluster_seed),
                       "The --cluster-seed option is only available with the communities scheme")
    IN  AppendIf(e3, Truthy(a.infomap_calls),
                 "The --infomap-calls option is only available with the communities scheme")

\* validate_arguments: the layout, video and image style checks
StyleErrors(a) ==
    LET e1 == AppendIf(<<>>, a.layout # "linlog" /\ Truthy(a.force),
                       "The --force option is only available with the linlog layout")
        e2 == AppendIf(e1, IsNone(a.video) /\ Truthy(a.fps),
                       "The --fps option is only available with the --video option")
        e3 == AppendIf(e2, IsNone(a.video) /\ Truthy(a.padding_time),
                       "The --padding-time option is only available with the --video option")
        e4 == AppendIf(e3, Truthy(a.node_size) /\ a.node_size_mode # "fixed",
                       "The --node-size option is only available with --node-size-mode fixed")
        e5 == AppendIf(e4, Truthy(a.min_node_size) /\ a.node_size_mode = "fixed",
                       "The --min-node-size option is only available with --node-size-mode centrality or highlight-new")
    IN  AppendIf(e5, Truthy(a.max_node_size) /\ a.node_size_mode = "fixed",
                 "The --max-node-size option is only available with --node-size-mode centrality or highlight-new")

\* validate_arguments: the list errors, in the order the messages are appended
argument_errors(a) ==
    (IF IsNone(a.assignments) THEN PartitioningErrors(a) ELSE <<>>)
        \o (IF a.scheme = "communities" THEN CommunitiesErrors(a) ELSE <<>>)
        \o (IF a.scheme = "cut-edges" THEN CutEdgesErrors(a) ELSE <<>>)
        \o StyleErrors(a)

\* only the first error of the list is passed to logging.error
first_error_only(errors) == SubSeq(errors, 1, 1)

\* validate_arguments, validate_config: for error in errors: logging.error(error)
log_errors(errors) == errors

\* args.<option> = value when the option is not truthy
SetDefault(a, test, option, value) == IF ~Truthy(a[test]) THEN [a EXCEPT ![option] = value] ELSE a

\* validate_arguments: the default values, set when no error was found. The test before
\* the default of max_node_size reads min_node_size
set_default_values(a) ==
    LET a1 == SetDefault(a, "attraction", "attraction",
                         IF a.layout = "springbox" THEN <<12>> ELSE <<0>>)
        a2 == SetDefault(a1, "repulsion", "repulsion",
                         IF a.layout = "springbox" THEN <<24>> ELSE <<-1200>>)
        a3 == SetDefault(a2, "fps", "fps", <<8>>)
        a4 == SetDefault(a3, "padding_time", "padding_time", <<2000>>)
        a5 == SetDefault(a4, "node_size", "node_size", <<20>>)
        a6 == SetDefault(a5, "min_node_size", "min_node_size", <<20>>)
        a7 == SetDefault(a6, "min_node_size", "max_node_size", <<60>>)
        a8 == IF a7.scheme = "communities"
              THEN SetDefault(
                       SetDefault(
                           IF IsNone(a7.clustering)
                           THEN [a7 EXCEPT !["clustering"] = <<"oslom2">>] ELSE a7,
                           "cluster_seed", "cluster_seed", <<1>>),
                       "infomap_calls", "infomap_calls", <<0>>)
              ELSE a7
        a9 == IF a8.scheme = "cut-edges"
              THEN LET b == SetDefault(a8, "cut_edge_length", "cut_edge_length", <<50>>)
                   IN  IF IsNone(b.cut_edge_node_size)
                       THEN [b EXCEPT !["cut_edge_node_size"] = <<"5">>] ELSE b
              ELSE a8
        a10 == SetDefault(a9, "cut_edge_length", "cut_edge_length", <<0>>)
    IN  SetDefault(a10, "ubvec", "ubvec", <<1000>>)

\* the executables validate_config looks for
Executables == {"gvmap", "oslom2", "infomap"}

\* validate_config: one message per executable that is not in its install directory, in
\* the order of the three validate_install_dir calls
config_errors(missing) ==
    AppendIf(AppendIf(AppendIf(<<>>, "gvmap" \in missing, "The gvmap executable cannot be found"),
                      "oslom2" \in missing, "The oslom2 executable cannot be found"),
             "infomap" \in missing, "The infomap executable cannot be found")

InitMain ==
    /\ parsed_args \in ParsedNamespaces(MaxGiven)
    /\ args = parsed_args
    /\ logged_errors = <<>>
    /\ exit_status = 0
    /\ NoSplit
    /\ NoClusters
    /\ NoOrder
    /\ NoClustering
    /\ NoFrames
    /\ NoColors
    /\ NoRandomAssignments
    /\ NoTiles
    /\ pc = "main"

\* __main__: validate_arguments(args)
ValidateArguments ==
    /\ pc = "main"
    /\ LET errors == argument_errors(args)
       IN  IF errors # <<>>
           THEN /\ logged_errors' = logged_errors \o log_errors(errors)
                /\ exit_status' = 1
                /\ pc' = "exited"
                /\ UNCHANGED args
           ELSE /\ args' = set_default_values(args)
                /\ pc' = "validated"
                /\ UNCHANGED <<logged_errors, exit_status>>
    /\ UNCHANGED <<parsed_args, split_vars, cluster_vars, order_vars, clustering_vars,
                   frame_vars, color_vars, random_vars, tile_vars>>

\* __main__: validate_config(config); the install directories may lack any executable
ValidateConfig ==
    /\ pc = "validated"
    /\ \E missing \in SUBSET Executables :
          LET errors == config_errors(missing)
          IN  IF errors # <<>>
              THEN /\ logged_errors' = logged_errors \o log_errors(errors)
                   /\ exit_status' = 1
                   /\ pc' = "exited"
              ELSE /\ pc' = "configured"
                   /\ UNCHANGED <<logged_errors, exit_status>>
    /\ UNCHANGED <<parsed_args, args, split_vars, cluster_vars, order_vars, clustering_vars,
                   frame_vars, color_vars, random_vars, tile_vars>>

\* __main__: run(args, config) is entered
Run ==
    /\ pc = "configured"
    /\ pc' = "running"
    /\ UNCHANGED <<main_vars, split_vars, cluster_vars, order_vars, clustering_vars,
                   frame_vars, color_vars, random_vars, tile_vars>>

NextMain == ValidateArguments \/ ValidateConfig \/ Run

SpecMain == InitMain /\ [][NextMain]_vars

\* ------------------------------------------------------------ name lookup
\* The scripts run under Python 3 (#!/usr/bin/env python3): the builtin functions the
\* code calls that Python 3 provides. xrange is a builtin of Python 2 only.
Python3Builtins ==
    {"range", "enumerate", "zip", "sorted", "sum", "len", "list", "max", "set", "str"}

\* the names genGraphStream.py binds at module level: its imports and its functions
genGraphStream_globals ==
    {"os", "sys", "logging", "argparse", "configparser", "subprocess", "random", "math",
     "nx", "nxmetis", "file_io", "graph", "color", "cluster", "utils", "image",
     "parse_arguments", "validate_arguments", "parse_config_file", "validate_install_dir",
     "validate_config", "run", "get_assignments_from_file", "filter_graph",
     "get_assignments_from_metis", "add_excluded_nodes_to_assignments",
     "splitting_nodes_into_partitions", "get_begin_end_node_indexes",
     "get_random_node_buckets", "get_assignments_from_buckets",
     "generate_random_assignments", "get_assignments", "run_metis_partitioning",
     "filter_node_order", "get_node_order", "get_partitions", "log_partitions_info",
     "split_graph", "generate_layout_per_subgraph", "create_dgs_file_and_generate_frames",
     "create_clusters", "perform_clustering", "run_clustering", "perform_coloring",
     "generate_frames", "create_video_from_tiles"}

\* the functions file_io.py defines
file_io_functions ==
    {"read_metis", "read_edgelist", "read_graph_from_file", "read_assignments_file",
     "read_order_file", "read_oslom2_tp_file", "read_infomap_tree_file",
     "get_frame_start_and_count", "write_dgs_file", "write_oslom_edge_file",
     "write_pajek_file"}

\* the names image.py binds at module level: its imports, the elements it takes from
\* svgutils.compose with import *, and its functions
image_globals ==
    {"os", "logging", "subprocess", "math", "glob", "fpdf", "svg2rlg", "renderPDF",
     "re", "CONFIG", "Element", "SVG", "MplFigure", "Text", "Panel", "Line", "Grid",
     "Figure", "Unit", "Image",
     "create_png_tiles", "create_svg_tiles", "combine_images_into_tiles",
     "write_png_to_pdf", "write_svg_to_pdf", "create_pdfs_from_tiles"}

\* a name a function of the module refers to is a global of the module or a builtin;
\* any other name raises NameError where it is evaluated
NameDefined(name, module_globals) == name \in module_globals \cup Python3Builtins

\* ------------------------------------------------------------ random assignments
\* the weights of args.tpwgts, in thousandths: they sum to 1.0, validate_arguments saw
\* to that
WeightLists == {<<1000>>, <<500, 500>>, <<250, 750>>, <<750, 250>>}

\* filter_graph: the nodes of graph.subgraph(filtered_nodes), or the error raised by the
\* call of file_io.read_filter_file
filter_graph(nodes, filter_given, values) ==
    IF ~filter_given THEN [raised |-> "", nodes |-> nodes]
    ELSE IF "read_filter_file" \notin file_io_functions
         THEN [raised |-> "AttributeError", nodes |-> {}]
         ELSE [raised |-> "",
               nodes |-> nodes \cap {n \in DOMAIN values : values[n] > 0}]

\* sorted(enumerate(remainders_and_quotas), key=lambda x:x[1], reverse=True): index a
\* comes before index b when its (remainder, quota) is greater; the sort is stable
RemainderBefore(quota, a, b) ==
    LET ra == quota[a] % 1000
        rb == quota[b] % 1000
    IN  \/ ra > rb
        \/ ra = rb /\ quota[a] > quota[b]
        \/ ra = rb /\ quota[a] = quota[b] /\ a < b

sorted_remainder_indexes(quota) ==
    CHOOSE p \in NodeOrders(DOMAIN quota) :
        \A i \in DOMAIN p : \A j \in DOMAIN p : i < j => RemainderBefore(quota, p[i], p[j])

\* splitting_nodes_into_partitions: the quotas truncated, then one more node for the
\* first missing_node_count partitions of the sorted indexes; the loop over them is
\* 'for i in xrange(missing_node_count)'
splitting_nodes_into_partitions(node_count, weights) ==
    LET quota == [i \in DOMAIN weights |-> weights[i] * node_count]
        truncated_quota == [i \in DOMAIN weights |-> quota[i] \div 1000]
        missing_node_count == node_count - Sum(truncated_quota)
        sorted == sorted_remainder_indexes(quota)
    IN  IF ~NameDefined("xrange", genGraphStream_globals)
        THEN [raised |-> "NameError", partition_sizes |-> truncated_quota]
        ELSE IF missing_node_count > Len(sorted)
        THEN [raised |-> "IndexError", partition_sizes |-> truncated_quota]
        ELSE [raised |-> "",
              partition_sizes |->
                  [i \in DOMAIN weights |->
                      IF \E k \in 1..missing_node_count : sorted[k] = i
                      THEN truncated_quota[i] + 1 ELSE truncated_quota[i]]]

RECURSIVE get_begin_end_node_indexes(_, _)
\* get_begin_end_node_indexes: the (begin, end) slice of each partition size, from
\* node_index on
get_begin_end_node_indexes(partition_sizes, node_index) ==
    IF partition_sizes = <<>> THEN <<>>
    ELSE <<<<node_index, node_index + partition_sizes[1]>>>>
            \o get_begin_end_node_indexes(Tail(partition_sizes),
                                          node_index + partition_sizes[1])

\* random.shuffle: every order of the list
Shuffles(list) == {[i \in DOMAIN list |-> list[p[i]]] : p \in NodeOrders(DOMAIN list)}

\* get_random_node_buckets: nodes is list(range(node_count)), shuffled; the partition
\* sizes are shuffled too; bucket k is nodes[begin:end] (0-based, end excluded)
get_random_node_buckets(node_count, partition_sizes) ==
    {[k \in DOMAIN sizes |->
         LET slice == get_begin_end_node_indexes(sizes, 0)[k]
         IN  SubSeq(nodes, slice[1] + 1, slice[2])] :
     nodes \in NodeOrders(0..(node_count - 1)), sizes \in Shuffles(partition_sizes)}

\* get_assignments_from_buckets: each node of bucket k gets partition k, counted from 0
get_assignments_from_buckets(node_buckets) ==
    [node \in UNION {Range(node_buckets[k]) : k \in DOMAIN node_buckets} |->
        (CHOOSE k \in DOMAIN node_buckets : node \in Range(node_buckets[k])) - 1]

\* add_excluded_nodes_to_assignments: -1 for every node of the graph without assignment
add_excluded_nodes_to_assignments(nodes, a) ==
    [node \in nodes \cup DOMAIN a |-> IF node \in DOMAIN a THEN a[node] ELSE -1]

\* generate_random_assignments: the results it may return, or the error it raises
generate_random_assignments(nodes, filter_given, values, weights) ==
    LET filtered_graph == filter_graph(nodes, filter_given, values)
        node_count == Cardinality(filtered_graph.nodes)
        split == splitting_nodes_into_partitions(node_count, weights)
    IN  IF filtered_graph.raised # ""
        THEN {[raised |-> filtered_graph.raised, assignments |-> <<>>]}
        ELSE IF split.raised # ""
        THEN {[raised |-> split.raised, assignments |-> <<>>]}
        ELSE {[raised |-> "",
               assignments |->
                   add_excluded_nodes_to_assignments(nodes,
                                                     get_assignments_from_buckets(buckets))] :
              buckets \in get_random_node_buckets(node_count, split.partition_sizes)}

\* run() with --random-assignments: the input graph, the filter file, if any, with one
\* value per node, and the weights
InitRandom ==
    /\ random_graph \in SUBSET NodeIds \ {{}}
    /\ filter_file \in BOOLEAN
    /\ filter_values \in IF filter_file THEN [random_graph -> {0, 1}] ELSE {<<>>}
    /\ tpwgts \in WeightLists
    /\ random_result = <<>>
    /\ NoSplit
    /\ NoClusters
    /\ NoOrder
    /\ NoClustering
    /\ NoFrames
    /\ NoColors
    /\ NoMain
    /\ NoTiles
    /\ pc = "random"

\* get_assignments: generate_random_assignments(graph, filter_file, nparts, tpwgts, seed)
GenerateRandomAssignments ==
    /\ pc = "random"
    /\ random_result' \in generate_random_assignments(random_graph, filter_file,
                                                      filter_values, tpwgts)
    /\ pc' = IF random_result'.raised # "" THEN "failed" ELSE "assigned"
    /\ UNCHANGED <<random_graph, filter_file, filter_values, tpwgts, main_vars, tile_vars,
                   split_vars, cluster_vars, order_vars, clustering_vars, frame_vars,
                   color_vars>>

NextRandom == GenerateRandomAssignments

SpecRandom == InitRandom /\ [][NextRandom]_vars

\* ------------------------------------------------------------ tiling
\* args.fps once validate_arguments has returned: the default 8, or the value given
FpsValues == {1, 2, 8}

\* a rendered frame of a partition is <<partition, k>>, the k-th file that
\* glob('p<partition>_*_new.png') finds, in sorted order; frame_blank.png is blank_frame_path
blank_frame_path == <<-1, 0>>

\* the lists of rendered frames of count partitions, each of at most MaxFrames frames
RenderedFrames(count) ==
    {[p \in 0..(count - 1) |-> [k \in 1..length[p] |-> <<p, k>>]] :
        length \in [0..(count - 1) -> 0..MaxFrames]}

\* [blank_frame_path] * count
Blanks(count) == [k \in 1..count |-> blank_frame_path]

\* combine_images_into_tiles: the frame lists padded at the start with blank frames up to
\* frame_count, then one tiled frame per index f, holding frames[p][f] of every
\* partition; the loop over the indexes is 'for _ in xrange(frame_count)'
combine_images_into_tiles(found, partitions_count, frames_per_second) ==
    LET max_frame_count_per_partition ==
            Max({Len(found[p]) : p \in 0..(partitions_count - 1)})
        extra_blank_frame_count == (frames_per_second + 1) \div 2
        frame_count == max_frame_count_per_partition + extra_blank_frame_count
        padded == [p \in 0..(partitions_count - 1) |->
                      Blanks(frame_count - Len(found[p])) \o found[p]]
    IN  IF ~NameDefined("xrange", image_globals)
        THEN [raised |-> "NameError", frames |-> padded, frame_files |-> <<>>,
              tiles |-> <<>>]
        ELSE [raised |-> "", frames |-> padded,
              frame_files |-> [f \in 1..frame_count |-> f - 1],
              tiles |-> [f \in 1..frame_count |->
                            [p \in 0..(partitions_count - 1) |-> padded[p][f]]]]

\* run() with --video or --pdf, after the frames of every sub-graph were rendered
InitTiles ==
    /\ partitions \in {[i \in 1..count |-> i - 1] : count \in 1..MaxParts}
    /\ frames_found \in RenderedFrames(Len(partitions))
    /\ fps \in FpsValues
    /\ tiled = <<>>
    /\ input_nodes = {}
    /\ input_edges = {}
    /\ assignments = <<>>
    /\ sub_graphs = <<>>
    /\ scheme = "none"
    /\ created = <<>>
    /\ NoClusters
    /\ NoOrder
    /\ NoClustering
    /\ NoFrames
    /\ NoColors
    /\ NoMain
    /\ NoRandomAssignments
    /\ pc = "tiling"

\* run(): image.combine_images_into_tiles(output_dir, partitions, border_size, width,
\* height, fps)
CombineImagesIntoTiles ==
    /\ pc = "tiling"
    /\ tiled' = combine_images_into_tiles(frames_found, Len(partitions), fps)
    /\ pc' = IF tiled'.raised # "" THEN "failed" ELSE "tiled"
    /\ UNCHANGED <<frames_found, fps, main_vars, random_vars, split_vars, cluster_vars,
                   order_vars, clustering_vars, frame_vars, color_vars>>

NextTiles == CombineImagesIntoTiles

SpecTiles == InitTiles /\ [][NextTiles]_vars

\* ------------------------------------------------------------ split stage: properties
Included == {n \in input_nodes : assignments[n] # -1}

HiddenNodesOf(sg) == {n \in sg.nodes : "hidden" \in DOMAIN sg.node[n]}

VisibleNodesOf(sg) == sg.nodes \ HiddenNodesOf(sg)

AllHiddenNodes == UNION {HiddenNodesOf(sub_graphs[i]) : i \in DOMAIN sub_graphs}

NeighborsIn(sg, n) == {m \in sg.nodes : <<n, m>> \in sg.edges \/ <<m, n>> \in sg.edges}

\* the edges of the input graph whose endpoints are included and lie in different partitions
CrossingEdges == {e \in input_edges : /\ assignments[e[1]] # -1
                                      /\ assignments[e[2]] # -1
                                      /\ assignments[e[1]] # assignments[e[2]]}

\* (sub-graph, cut edge) pairs where the cut edge has an endpoint in the sub-graph
Incidences == {ie \in (DOMAIN sub_graphs) \X CrossingEdges :
                  \/ assignments[ie[2][1]] = partitions[ie[1]]
                  \/ assignments[ie[2][2]] = partitions[ie[1]]}

IndexOfPartition(p) == CHOOSE i \in DOMAIN partitions : partitions[i] = p

CutEdgesDone == pc = "split" /\ scheme = "cut-edges"

\* the ids of the placeholders created for internal node n of sub-graph i, in creation order
RECURSIVE CreatedFor(_, _, _)
CreatedFor(i, n, k) ==
    IF k = 0 THEN <<>>
    ELSE IF created[k].graph = i /\ created[k].internal = n
         THEN Append(CreatedFor(i, n, k - 1), created[k].id)
         ELSE CreatedFor(i, n, k - 1)

\* C1: after create_sub_graphs the node sets of the sub-graphs are pairwise disjoint,
\* their union is the set of included nodes, and no excluded node is in any sub-graph.
C1_SubGraphsPartitionIncluded ==
    pc = "created" =>
        /\ \A i, j \in DOMAIN sub_graphs : i # j => sub_graphs[i].nodes \cap sub_graphs[j].nodes = {}
        /\ UNION {sub_graphs[i].nodes : i \in DOMAIN sub_graphs} = Included
        /\ \A i \in DOMAIN sub_graphs : \A n \in sub_graphs[i].nodes : assignments[n] # -1

C1_Witness ==
    /\ pc = "created"
    /\ Len(sub_graphs) >= 2
    /\ \A i \in DOMAIN sub_graphs : sub_graphs[i].nodes # {}
    /\ \E n \in input_nodes : assignments[n] = -1

\* C2: after the split stage every node of a sub-graph, placeholders included, carries
\* the partition of its sub-graph, which is the partition the sub-graph was made for.
C2_NodePartitionIsSubGraphPartition ==
    pc \in {"created", "split"} =>
        \A i \in DOMAIN sub_graphs :
            /\ sub_graphs[i].partition = partitions[i]
            /\ \A n \in sub_graphs[i].nodes :
                  /\ "partition" \in DOMAIN sub_graphs[i].node[n]
                  /\ sub_graphs[i].node[n]["partition"] = sub_graphs[i].partition

C2_Witness ==
    /\ CutEdgesDone
    /\ \E i, j \in DOMAIN sub_graphs :
          i # j /\ HiddenNodesOf(sub_graphs[i]) # {} /\ HiddenNodesOf(sub_graphs[j]) # {}

\* C3: get_cut_edges returns, each once, exactly the edges of the input graph whose two
\* endpoints are included and lie in different partitions, that is the edges between
\* included nodes that no sub-graph holds in either orientation.
C3_CutEdgesAreCrossingEdges ==
    pc = "created" =>
        LET cut_edges == get_cut_edges(input_edges, sub_graphs)
            held == UNION {sub_graphs[i].edges : i \in DOMAIN sub_graphs}
        IN  /\ Range(cut_edges) = CrossingEdges
            /\ Len(cut_edges) = Cardinality(CrossingEdges)
            /\ Range(cut_edges) = {e \in input_edges : /\ e[1] \in Included
                                                       /\ e[2] \in Included
                                                       /\ e \notin held
                                                       /\ Reversed(e) \notin held}
            /\ \A e \in Range(cut_edges) : ~(assignments[e[1]] = -1 /\ assignments[e[2]] = -1)

C3_Witness ==
    /\ pc = "created"
    /\ CrossingEdges # {}
    /\ \E e \in input_edges : \E i \in DOMAIN sub_graphs : Reversed(e) \in sub_graphs[i].edges

\* C4: after add_cut_edges_to_subgraphs there are as many placeholders as (sub-graph,
\* cut edge) incidences; each has hidden = 1 and exactly one neighbour, the endpoint of
\* its cut edge inside the sub-graph.
C4_OnePlaceholderPerIncidence ==
    CutEdgesDone =>
        /\ Len(created) = Cardinality(Incidences)
        /\ Cardinality(AllHiddenNodes) = Cardinality(Incidences)
        /\ \A i \in DOMAIN sub_graphs : \A h \in HiddenNodesOf(sub_graphs[i]) :
              LET sg == sub_graphs[i]
              IN  /\ sg.node[h]["hidden"] = 1
                  /\ Cardinality(NeighborsIn(sg, h)) = 1
                  /\ NeighborsIn(sg, h) = {sg.node[h]["connect"][1]}
                  /\ sg.node[h]["connect"][1] \in VisibleNodesOf(sg)
                  /\ \E e \in CrossingEdges :
                        {e[1], e[2]} = {sg.node[h]["connect"][1], sg.node[h]["connect"][2]}

C4_Witness ==
    /\ CutEdgesDone
    /\ Cardinality(CrossingEdges) >= 2
    /\ Len(created) >= 4

\* C5: a cut edge (u, v) with u in partition p and v in partition q gets exactly two
\* placeholders: one in S_p with connect = [u, v] attached to u, one in S_q with
\* connect = [v, u] attached to v.
C5_TwoPlaceholdersPerCutEdge ==
    CutEdgesDone =>
        \A e \in CrossingEdges :
            LET u == e[1]
                v == e[2]
                p == IndexOfPartition(assignments[u])
                q == IndexOfPartition(assignments[v])
                For(i) == {h \in HiddenNodesOf(sub_graphs[i]) :
                              sub_graphs[i].node[h]["connect"] \in {<<u, v>>, <<v, u>>}}
            IN  /\ p # q
                /\ Cardinality(For(p)) = 1
                /\ Cardinality(For(q)) = 1
                /\ \A h \in For(p) : /\ sub_graphs[p].node[h]["connect"] = <<u, v>>
                                     /\ NeighborsIn(sub_graphs[p], h) = {u}
                /\ \A h \in For(q) : /\ sub_graphs[q].node[h]["connect"] = <<v, u>>
                                     /\ NeighborsIn(sub_graphs[q], h) = {v}
                /\ \A i \in DOMAIN sub_graphs \ {p, q} : For(i) = {}

C5_Witness ==
    /\ CutEdgesDone
    /\ \E e \in CrossingEdges : e[1] > e[2]
    /\ \E e \in CrossingEdges : assignments[e[1]] > assignments[e[2]]

\* C6: the k-th placeholder created has id max(original node ids) + k; sub-graphs are
\* served in list order, so a placeholder of an earlier sub-graph has a smaller id than
\* one of a later sub-graph; no placeholder id is an original node id or used twice.
C6_PlaceholderIdsFromOneCounter ==
    CutEdgesDone =>
        /\ \A k \in DOMAIN created :
              /\ created[k].id = Max(input_nodes) + k
              /\ created[k].id \in HiddenNodesOf(sub_graphs[created[k].graph])
              /\ created[k].id \notin input_nodes
        /\ \A k, l \in DOMAIN created : k < l => created[k].graph <= created[l].graph
        /\ {created[k].id : k \in DOMAIN created} = AllHiddenNodes
        /\ \A i, j \in DOMAIN sub_graphs : i < j =>
              \A g \in HiddenNodesOf(sub_graphs[i]) : \A h \in HiddenNodesOf(sub_graphs[j]) : g < h
        /\ \A i \in DOMAIN sub_graphs : VisibleNodesOf(sub_graphs[i]) \subseteq input_nodes
        /\ AllHiddenNodes \cap input_nodes = {}

C6_Witness ==
    /\ CutEdgesDone
    /\ Max(input_nodes) + 1 # Cardinality(input_nodes)
    /\ \E i, j \in DOMAIN sub_graphs :
          i < j /\ HiddenNodesOf(sub_graphs[i]) # {} /\ HiddenNodesOf(sub_graphs[j]) # {}

\* C7: a placeholder h made for internal node i and external node e has the configured
\* size, i's partition, connect = [i, e] with i inside and e outside the sub-graph, the
\* edge (i, h), the assignment of i, and is appended to i.hidden_nodes, which therefore
\* lists i's placeholders in creation order.
C7_PlaceholderAttributes ==
    CutEdgesDone =>
        /\ \A k \in DOMAIN created :
              LET r == created[k]
                  sg == sub_graphs[r.graph]
              IN  /\ r.id \in sg.nodes
                  /\ sg.node[r.id]["size"] = CutEdgeNodeSize
                  /\ sg.node[r.id]["partition"] = sg.node[r.internal]["partition"]
                  /\ sg.node[r.id]["connect"] = <<r.internal, r.external>>
                  /\ r.internal \in VisibleNodesOf(sg)
                  /\ r.external \notin sg.nodes
                  /\ r.external \in Included
                  /\ \E e \in CrossingEdges : {e[1], e[2]} = {r.internal, r.external}
                  /\ <<r.internal, r.id>> \in sg.edges
                  /\ assignments[r.id] = assignments[r.internal]
        /\ \A i \in DOMAIN sub_graphs : \A n \in VisibleNodesOf(sub_graphs[i]) :
              LET mine == CreatedFor(i, n, Len(created))
              IN  IF mine = <<>>
                  THEN "hidden_nodes" \notin DOMAIN sub_graphs[i].node[n]
                  ELSE /\ "hidden_nodes" \in DOMAIN sub_graphs[i].node[n]
                       /\ sub_graphs[i].node[n]["hidden_nodes"] = mine

C7_Witness ==
    /\ CutEdgesDone
    /\ \E i \in DOMAIN sub_graphs : \E n \in VisibleNodesOf(sub_graphs[i]) :
          /\ "hidden_nodes" \in DOMAIN sub_graphs[i].node[n]
          /\ Len(sub_graphs[i].node[n]["hidden_nodes"]) >= 2

\* ------------------------------------------------------------ namespacer: properties
GraphCount == Len(clusters_in)

\* the offsets are 0 for the first partition and grow by each partition's largest local id
OffsetsAccumulateLocalMaxima ==
    /\ DOMAIN local_to_global_cluster_mapping = 0..(GraphCount - 1)
    /\ GraphCount >= 1 => local_to_global_cluster_mapping[0] = 0
    /\ \A i \in 0..(GraphCount - 2) :
          local_to_global_cluster_mapping[i + 1] =
              local_to_global_cluster_mapping[i] + Max(ClusterValues(clusters_in[i + 1]))

ScenarioB == <<(1 :> <<1>>) @@ (2 :> <<1, 2>>), (3 :> <<1>>)>>

\* C8: when the conversion returns, no cluster id is used by two partitions.
C8_GlobalIdsDisjoint ==
    pc = "converted" =>
        \A i, j \in DOMAIN clusters_per_node_per_graph :
            i # j => ClusterValues(clusters_per_node_per_graph[i])
                         \cap ClusterValues(clusters_per_node_per_graph[j]) = {}

C8_Witness ==
    /\ pc = "converted"
    /\ GraphCount = 3
    /\ \A i, j \in DOMAIN clusters_in :
          ClusterValues(clusters_in[i]) \cap ClusterValues(clusters_in[j]) # {}

\* C9 as claimed: the conversion always returns, partitions without a cluster included,
\* with offset 0 for partition 0 and each next offset the previous one plus the previous
\* partition's largest local id (0 more for a partition without clusters).
C9_Original ==
    pc # "clusters" =>
        /\ pc = "converted"
        /\ DOMAIN local_to_global_cluster_mapping = 0..(GraphCount - 1)
        /\ GraphCount >= 1 => local_to_global_cluster_mapping[0] = 0
        /\ \A i \in 0..(GraphCount - 2) :
              local_to_global_cluster_mapping[i + 1] =
                  local_to_global_cluster_mapping[i]
                      + (IF ClusterValues(clusters_in[i + 1]) = {} THEN 0
                         ELSE Max(ClusterValues(clusters_in[i + 1])))

\* C9 amended: the conversion fails exactly when some partition's map holds no cluster;
\* otherwise partition 0 gets offset 0, partition i+1 the offset of partition i plus
\* partition i's largest local id before shifting, so the offsets strictly increase
\* (Scenario B: offsets 0 and 2, node 3 becomes [3]).
C9_OffsetsAccumulateOrFail ==
    /\ pc = "failed" => \E i \in DOMAIN clusters_in : MaxOfNothing(clusters_in[i])
    /\ pc = "converted" =>
          /\ \A i \in DOMAIN clusters_in : ~MaxOfNothing(clusters_in[i])
          /\ OffsetsAccumulateLocalMaxima
          /\ \A i \in 0..(GraphCount - 2) :
                local_to_global_cluster_mapping[i] < local_to_global_cluster_mapping[i + 1]
          /\ clusters_in = ScenarioB =>
                /\ local_to_global_cluster_mapping = (0 :> 0) @@ (1 :> 2)
                /\ clusters_per_node_per_graph = <<(1 :> <<1>>) @@ (2 :> <<1, 2>>), (3 :> <<3>>)>>

C9_Witness ==
    /\ pc = "converted"
    /\ GraphCount = 3
    /\ Max(ClusterValues(clusters_in[1])) > Cardinality(ClusterValues(clusters_in[1]))
    /\ local_to_global_cluster_mapping[2] = 4

\* C10: the conversion adds one offset per partition to every id of that partition and
\* changes nothing else: the keys, the length and order of every membership list and the
\* difference between any two ids of a partition stay as they were.
C10_OnlyIdsShiftByPartitionOffset ==
    pc \in {"converted", "failed"} =>
        /\ Len(clusters_per_node_per_graph) = GraphCount
        /\ \A i \in DOMAIN clusters_in :
              LET before == clusters_in[i]
                  after == clusters_per_node_per_graph[i]
                  Shifted(d) == \A n \in DOMAIN before : \A k \in DOMAIN before[n] :
                                    after[n][k] = before[n][k] + d
              IN  /\ DOMAIN after = DOMAIN before
                  /\ \A n \in DOMAIN before : Len(after[n]) = Len(before[n])
                  /\ \A n, m \in DOMAIN before : \A k \in DOMAIN before[n] : \A l \in DOMAIN before[m] :
                        after[n][k] - after[m][l] = before[n][k] - before[m][l]
                  /\ IF pc = "converted"
                     THEN Shifted(local_to_global_cluster_mapping[i - 1])
                     ELSE \E d \in 0..(MaxGraphs * MaxClusterId) : Shifted(d)

C10_Witness ==
    /\ pc = "converted"
    /\ \E i \in DOMAIN clusters_in : \E n \in DOMAIN clusters_in[i] :
          /\ local_to_global_cluster_mapping[i - 1] > 0
          /\ clusters_in[i][n] = <<2, 1>>
          /\ clusters_per_node_per_graph[i][n][1] > clusters_per_node_per_graph[i][n][2]

\* ------------------------------------------------------------ split stage: excluded endpoints
\* the edges of the input graph with one endpoint in a partition and the other excluded
HalfExcludedEdges == {e \in input_edges : (assignments[e[1]] = -1) # (assignments[e[2]] = -1)}

\* C20 as claimed: an edge with one endpoint in a partition and the other excluded is
\* returned by get_cut_edges and gets a placeholder in the included endpoint's sub-graph.
C20_Original ==
    /\ pc = "created" => HalfExcludedEdges \subseteq Range(get_cut_edges(input_edges, sub_graphs))
    /\ CutEdgesDone =>
          \A e \in HalfExcludedEdges : \E i \in DOMAIN sub_graphs : \E h \in HiddenNodesOf(sub_graphs[i]) :
              sub_graphs[i].node[h]["connect"] \in {e, Reversed(e)}

\* C20 amended: an edge with one endpoint in a partition and the other excluded is not a
\* cut edge: get_cut_edges never returns it and no sub-graph gets a placeholder for it.
C20_HalfExcludedEdgeIsNoCutEdge ==
    /\ pc = "created" =>
          \A e \in HalfExcludedEdges : e \notin Range(get_cut_edges(input_edges, sub_graphs))
    /\ CutEdgesDone =>
          \A e \in HalfExcludedEdges : \A i \in DOMAIN sub_graphs : \A h \in HiddenNodesOf(sub_graphs[i]) :
              sub_graphs[i].node[h]["connect"] \notin {e, Reversed(e)}

C20_Witness ==
    /\ CutEdgesDone
    /\ HalfExcludedEdges # {}
    /\ \E e \in HalfExcludedEdges : \E i \in DOMAIN sub_graphs :
          HiddenNodesOf(sub_graphs[i]) # {} /\ {e[1], e[2]} \cap VisibleNodesOf(sub_graphs[i]) # {}

\* ------------------------------------------------------------ order filter: properties
IsIncluded(n) == assignments[n] # -1

\* C15: after filter_node_order the list holds exactly the included nodes, in the
\* relative order they had before, and no node whose assignment is -1.
C15_FilteredOrderIsIncludedNodes ==
    pc = "filtered" =>
        /\ node_order = SelectSeq(order_in, IsIncluded)
        /\ \A i \in DOMAIN node_order : assignments[node_order[i]] # -1

\* ------------------------------------------------------------ clustering: properties
Homeless == homeless_nodes(graph_nodes, clusters_found)

\* C11 as stated: every homeless node gets the id max + 1 and no two homeless nodes
\* share a cluster.
C11_Original ==
    pc = "fixed" =>
        /\ \A n \in Homeless :
              clusters_fixed[n] = <<get_max_cluster_value(clusters_found) + 1>>
        /\ \A n, m \in Homeless :
              n # m => Range(clusters_fixed[n]) \cap Range(clusters_fixed[m]) = {}

\* C11: every homeless node gets the one-entry list [max(existing ids) + 1]; all the
\* homeless nodes of the partition share that one new cluster, and no node that was
\* already in the map belongs to it.
C11_HomelessNodesShareOneNewCluster ==
    pc = "fixed" =>
        /\ \A n \in Homeless :
              clusters_fixed[n] = <<get_max_cluster_value(clusters_found) + 1>>
        /\ \A n, m \in Homeless : clusters_fixed[n] = clusters_fixed[m]
        /\ \A n \in DOMAIN clusters_found :
              get_max_cluster_value(clusters_found) + 1 \notin Range(clusters_fixed[n])

C11_Witness ==
    /\ pc = "fixed"
    /\ Cardinality(Homeless) >= 2
    /\ external_calls # <<>>

\* C12: after the fixup of a non-empty map every node of the graph has a membership
\* list with at least one entry, and the lists of the nodes already in the map are
\* unchanged.
C12_EveryNodeHasAClusterAfterFixup ==
    (pc = "fixed" /\ DOMAIN clusters_found # {}) =>
        /\ graph_nodes \subseteq DOMAIN clusters_fixed
        /\ \A n \in graph_nodes : Len(clusters_fixed[n]) >= 1
        /\ \A n \in DOMAIN clusters_found : clusters_fixed[n] = clusters_found[n]

C12_Witness ==
    /\ pc = "fixed"
    /\ Homeless # {}
    /\ \E n \in DOMAIN clusters_found : Len(clusters_found[n]) >= 2

\* C19: for a sub-graph with zero edges run_clustering runs no external tool and returns
\* a map giving every node exactly one cluster id, the ids pairwise distinct and equal
\* to 1..n.
C19_ZeroEdgesGivesSingletons ==
    (pc \in {"clustered", "fixed", "failed"} /\ graph_edges = {}) =>
        /\ external_calls = <<>>
        /\ DOMAIN clusters_found = graph_nodes
        /\ \A n \in graph_nodes : Len(clusters_found[n]) = 1
        /\ \A n, m \in graph_nodes : n # m => clusters_found[n] # clusters_found[m]
        /\ {clusters_found[n][1] : n \in graph_nodes} = 1..Cardinality(graph_nodes)

C19_Witness ==
    /\ pc = "clustered"
    /\ graph_edges = {}
    /\ Cardinality(graph_nodes) >= 2
    /\ \E n, m \in graph_nodes : n < m /\ clusters_found[n][1] > clusters_found[m][1]

\* ------------------------------------------------------------ frame windows: properties
FullGraph == union_all(sub_graphs)

\* 0-based position of a node among all nodes of the union graph sorted by order
GlobalRank(n) ==
    Cardinality({m \in FullGraph.nodes : FullGraph.node[m]["order"] < FullGraph.node[n]["order"]})

\* 0-based position of a node among the nodes of its own sub-graph sorted by order
LocalRank(sg, n) ==
    Cardinality({m \in sg.nodes : sg.node[m]["order"] < sg.node[n]["order"]})

RanksOfPartition(p) == {GlobalRank(n) : n \in {m \in FullGraph.nodes : FullGraph.node[m]["partition"] = p}}

\* C13: the starts of partition p are the 0-based positions, in the union graph sorted
\* by order, of the nodes of p, ascending; counts[i] = starts[i+1] - starts[i] for every
\* node but the last and counts[last] = number of nodes + trailing_frame_count - starts[last].
C13_FrameStartAndCount ==
    \A f \in DOMAIN dgs :
        LET starts == dgs[f].starts
            counts == dgs[f].counts
            last == Len(starts)
        IN  /\ starts = SortedInts(RanksOfPartition(dgs[f].partition))
            /\ Len(counts) = last
            /\ \A i \in 1..(last - 1) : counts[i] = starts[i + 1] - starts[i]
            /\ last >= 1 =>
                  counts[last] = Cardinality(FullGraph.nodes) + trailing_frame_count - starts[last]

\* Scenario C: order 1, 2, 3, 4, nodes 1 and 2 in partition 0, nodes 3 and 4 in
\* partition 1, two trailing frames
C13_Witness ==
    /\ pc = "written"
    /\ node_order = <<1, 2, 3, 4>>
    /\ assignments = (1 :> 0 @@ 2 :> 0 @@ 3 :> 1 @@ 4 :> 1)
    /\ trailing_frame_count = 2
    /\ dgs[1].partition = 0 /\ dgs[1].starts = <<0, 1>> /\ dgs[1].counts = <<1, 5>>
    /\ dgs[2].partition = 1 /\ dgs[2].starts = <<2, 3>> /\ dgs[2].counts = <<1, 3>>

\* C14: for every partition, placeholders included, starts and counts have as many
\* entries as the sub-graph has nodes, and the i-th node of the sub-graph sorted by its
\* own order gets the window whose frame_start is that node's 0-based rank among all
\* nodes of the union graph sorted by order.
C14_WindowOfNodeIsItsGlobalRank ==
    \A f \in DOMAIN dgs :
        LET sg == sub_graphs[f]
        IN  /\ dgs[f].partition = sg.partition
            /\ Len(dgs[f].starts) = Cardinality(sg.nodes)
            /\ Len(dgs[f].counts) = Cardinality(sg.nodes)
            /\ Len(dgs[f].an) = Cardinality(sg.nodes)
            /\ \A i \in DOMAIN dgs[f].an :
                  /\ LocalRank(sg, dgs[f].an[i].node) = i - 1
                  /\ dgs[f].an[i].fs = GlobalRank(dgs[f].an[i].node)
                  /\ dgs[f].an[i].fc = dgs[f].counts[i]

\* a placeholder written between two nodes of another partition, with a gap in the orders
C14_Witness ==
    /\ pc = "written"
    /\ Len(dgs) >= 2
    /\ 0 \in Range(node_order)
    /\ \E f \in DOMAIN dgs : \E i \in DOMAIN dgs[f].an :
          /\ dgs[f].an[i].hidden = 1
          /\ dgs[f].an[i].fs # i - 1
          /\ dgs[f].an[i].fs # sub_graphs[f].node[dgs[f].an[i].node]["order"] - 1

\* ------------------------------------------------------------ coloring: properties
MergedClusters == merge_dictionaries(clusters_per_node_per_graph)

PrimaryCluster(n) == MergedClusters[n][1]

Colored(n) == n \in DOMAIN color_per_node

ScanIndex(n) == CHOOSE i \in DOMAIN scan_order : scan_order[i] = n

\* the first scanned node that has a known color and whose primary cluster is c
FirstColoredOf(c) ==
    CHOOSE n \in DOMAIN MergedClusters :
        /\ Colored(n) /\ PrimaryCluster(n) = c
        /\ \A m \in DOMAIN MergedClusters :
              (Colored(m) /\ PrimaryCluster(m) = c) => ScanIndex(n) <= ScanIndex(m)

PrimaryClustersOfColored == {PrimaryCluster(n) : n \in {m \in DOMAIN MergedClusters : Colored(m)}}

AllClusters == ClusterValues(MergedClusters)

\* C16: every node of the merged membership gets exactly one color per membership
\* entry, in membership order, the i-th being cluster_to_color of its i-th cluster.
C16_OneColorPerMembership ==
    (pc = "colored" /\ DOMAIN MergedClusters # {}) =>
        /\ DOMAIN colors_per_node = DOMAIN MergedClusters
        /\ \A n \in DOMAIN MergedClusters :
              /\ Len(colors_per_node[n]) = Len(MergedClusters[n])
              /\ \A i \in DOMAIN MergedClusters[n] :
                    colors_per_node[n][i] = cluster_to_color[MergedClusters[n][i]]

C16_Witness ==
    /\ pc = "colored"
    /\ \E n \in DOMAIN MergedClusters :
          /\ Len(MergedClusters[n]) = 2
          /\ colors_per_node[n][1] # colors_per_node[n][2]
          /\ fillcolor[n] = colors_per_node[n]

\* C17: cluster_to_color maps exactly the primary clusters of the colored nodes, each to
\* the color of the first scanned colored node with that primary cluster; hence all
\* nodes sharing a primary cluster get the same first color.
C17_ClusterColorFromFirstPrimary ==
    (pc \in {"colored", "failed"} /\ DOMAIN MergedClusters # {}) =>
        /\ DOMAIN cluster_to_color = PrimaryClustersOfColored
        /\ \A c \in DOMAIN cluster_to_color : cluster_to_color[c] = color_per_node[FirstColoredOf(c)]
        /\ pc = "colored" =>
              \A n, m \in DOMAIN MergedClusters :
                  PrimaryCluster(n) = PrimaryCluster(m) => colors_per_node[n][1] = colors_per_node[m][1]

\* two colored nodes share a primary cluster and gvmap gave them different colors; a
\* colored node has a secondary cluster
C17_Witness ==
    /\ pc = "colored"
    /\ \E n, m \in DOMAIN MergedClusters :
          /\ ScanIndex(n) < ScanIndex(m)
          /\ PrimaryCluster(n) = PrimaryCluster(m)
          /\ Colored(n) /\ Colored(m)
          /\ color_per_node[n] # color_per_node[m]
          /\ colors_per_node[m][1] = color_per_node[n]
          /\ Len(MergedClusters[m]) = 2

\* C18: if some cluster of some membership list is not the primary cluster of a colored
\* node the fusion fails and no fillcolor is written; if every cluster is the primary
\* cluster of a colored node it does not fail.
C18_LookupMissIsFatal ==
    (pc \in {"colored", "failed"} /\ DOMAIN MergedClusters # {}) =>
        /\ ~(AllClusters \subseteq PrimaryClustersOfColored) => (pc = "failed" /\ fillcolor = <<>>)
        /\ AllClusters \subseteq PrimaryClustersOfColored => pc = "colored"

\* every primary cluster has a color, a secondary one has none
C18_Witness ==
    /\ pc = "failed"
    /\ \A n \in DOMAIN MergedClusters : PrimaryCluster(n) \in DOMAIN cluster_to_color
    /\ \E n \in DOMAIN MergedClusters :
          /\ Len(MergedClusters[n]) >= 2
          /\ MergedClusters[n][2] \notin DOMAIN cluster_to_color

\* ------------------------------------------------------------ split stage: frame of the cut-edge pass
CreatedIds == {created[k].id : k \in DOMAIN created}

\* C26: add_cut_edges_to_subgraphs leaves the node set and the edge set of the input
\* graph unchanged, changes no existing entry of the assignment map and adds exactly one
\* entry per placeholder, and puts each placeholder only in the sub-graph that holds its
\* internal neighbor; no placeholder is a node of the input graph.
C26_CutEdgePassFrame ==
    [][(pc = "created" /\ pc' = "split" /\ scheme' = "cut-edges") =>
          /\ input_nodes' = input_nodes
          /\ input_edges' = input_edges
          /\ \A n \in DOMAIN assignments : assignments'[n] = assignments[n]
          /\ DOMAIN assignments' = DOMAIN assignments \cup CreatedIds'
          /\ CreatedIds' \cap DOMAIN assignments = {}
          /\ Cardinality(CreatedIds') = Len(created')
          /\ CreatedIds' \cap input_nodes' = {}
          /\ \A k \in DOMAIN created' : \A i \in DOMAIN sub_graphs' :
                created'[k].id \in sub_graphs'[i].nodes <=>
                    (i = created'[k].graph /\ created'[k].internal \in sub_graphs[i].nodes)]_vars

\* both sub-graphs got a placeholder, one of them two
C26_Witness ==
    /\ CutEdgesDone
    /\ Len(created) >= 3
    /\ \E k, l \in DOMAIN created : created[k].graph # created[l].graph

\* ------------------------------------------------------------ node order: properties
SubGraphNodes == UNION {sub_graphs[i].nodes : i \in DOMAIN sub_graphs}

\* the attributes of a node, in the sub-graph that holds it
AttrsOf(n) == sub_graphs[CHOOSE i \in DOMAIN sub_graphs : n \in sub_graphs[i].nodes].node[n]

\* C28: after add_node_order_to_subgraphs every node of every sub-graph has an order
\* attribute >= 1, the orders are pairwise distinct across all sub-graphs, and the order
\* of every placeholder is strictly greater than the orders of both endpoints of the cut
\* edge it stands for.
C28_PlaceholderOrderedAfterEndpoints ==
    pc = "ordered" =>
        /\ \A n \in SubGraphNodes : "order" \in DOMAIN AttrsOf(n) /\ AttrsOf(n)["order"] >= 1
        /\ \A n, m \in SubGraphNodes : n # m => AttrsOf(n)["order"] # AttrsOf(m)["order"]
        /\ \A h \in AllHiddenNodes :
              /\ AttrsOf(h)["order"] > AttrsOf(AttrsOf(h)["connect"][1])["order"]
              /\ AttrsOf(h)["order"] > AttrsOf(AttrsOf(h)["connect"][2])["order"]

\* three placeholders or more, one of them ordered before a node of the input graph
C28_Witness ==
    /\ pc = "ordered"
    /\ Len(created) >= 3
    /\ \E h \in AllHiddenNodes : \E n \in SubGraphNodes \ AllHiddenNodes :
          AttrsOf(h)["order"] < AttrsOf(n)["order"]

\* every 'an' line written, over all files
AnLines == UNION {Range(dgs[f].an) : f \in DOMAIN dgs}

\* C27: with pairwise distinct orders and trailing_frame_count >= 0, the frame starts of
\* all nodes of all partitions are pairwise distinct and together are 0..N-1 (N nodes in
\* the union graph), every frame count is >= 1, and in every partition the window of the
\* last node ends at N + trailing_frame_count.
C27_WindowsTileAllFrames ==
    pc = "written" =>
        LET N == Cardinality(FullGraph.nodes)
        IN  /\ \A a, b \in AnLines : a.node # b.node => a.fs # b.fs
            /\ {a.node : a \in AnLines} = FullGraph.nodes
            /\ {a.fs : a \in AnLines} = 0..(N - 1)
            /\ \A a \in AnLines : a.fc >= 1
            /\ \A f \in DOMAIN dgs :
                  LET last == dgs[f].an[Len(dgs[f].an)]
                  IN  last.fs + last.fc = N + trailing_frame_count

\* two partitions interleaved in the order, trailing frames, and a partition whose last
\* node is not the last node overall
C27_Witness ==
    /\ pc = "written"
    /\ Len(dgs) = 2
    /\ trailing_frame_count >= 1
    /\ Len(dgs[1].an) >= 2 /\ Len(dgs[2].an) >= 2
    /\ dgs[1].an[1].fs < dgs[2].an[1].fs
    /\ dgs[2].an[1].fs < dgs[1].an[2].fs
    /\ dgs[1].an[Len(dgs[1].an)].fs < dgs[2].an[Len(dgs[2].an)].fs

\* ------------------------------------------------------------ DGS lines: properties
LinesOfKind(lines, kind) == {p \in DOMAIN lines : lines[p][1] = kind}

\* the animation step a line belongs to: one more than the st lines before it
StepOf(lines, p) == Cardinality({q \in LinesOfKind(lines, "st") : q < p}) + 1

\* C21: every file has, per node of the sub-graph in ascending order, one an line and one
\* st line after it, the st lines numbered 1..n; every edge of the sub-graph is one ae
\* line, in the step of its later-ordered endpoint and after the an lines of both its
\* endpoints; the ae ids are 0, 1, 2, ... in the order written.
C21_DgsLinesInStepOrder ==
    \A f \in DOMAIN dgs :
        LET lines == dgs[f].lines
            sg == sub_graphs[f]
            n == Cardinality(sg.nodes)
            an == LinesOfKind(lines, "an")
            ae == LinesOfKind(lines, "ae")
            st == LinesOfKind(lines, "st")
        IN  /\ Cardinality(an) = n
            /\ Cardinality(st) = n
            /\ \A p \in an :
                  /\ LocalRank(sg, lines[p][2]) = StepOf(lines, p) - 1
                  /\ \A q \in an : q < p => StepOf(lines, q) < StepOf(lines, p)
            /\ \A p \in st :
                  /\ lines[p][2] = Cardinality({q \in st : q <= p})
                  /\ \E q \in an : q < p /\ StepOf(lines, q) = lines[p][2]
            /\ \A e \in sg.edges :
                  \E p \in ae :
                      /\ {lines[p][3], lines[p][4]} = {e[1], e[2]}
                      /\ \A q \in ae : {lines[q][3], lines[q][4]} = {e[1], e[2]} => q = p
                      /\ StepOf(lines, p) = Max({LocalRank(sg, e[1]), LocalRank(sg, e[2])}) + 1
                      /\ \A x \in {e[1], e[2]} : \E q \in an : q < p /\ lines[q][2] = x
            /\ \A p \in ae :
                  /\ \E e \in sg.edges : {lines[p][3], lines[p][4]} = {e[1], e[2]}
                  /\ lines[p][2] = Cardinality({q \in ae : q < p})

\* a file whose first step has no edge, with an edge of the input graph and the edge of
\* a placeholder written in later steps
C21_Witness ==
    /\ pc = "written"
    /\ \E f \in DOMAIN dgs :
          LET lines == dgs[f].lines
              hidden == HiddenNodesOf(sub_graphs[f])
          IN  /\ lines[1][1] = "an" /\ lines[2][1] = "st"
              /\ \E p, q \in LinesOfKind(lines, "ae") :
                    /\ {lines[p][3], lines[p][4]} \cap hidden = {}
                    /\ {lines[q][3], lines[q][4]} \cap hidden # {}

\* ------------------------------------------------------------ cluster attribute: properties
\* C22: after add_clusters_to_graph every sub-graph node with a membership in the map of
\* its sub-graph has the cluster attribute, a single id, the first of its membership
\* list; the other nodes have none; every map keeps exactly its keys that are nodes of
\* the sub-graph at the same index, with their lists.
C22_ClusterAttributeIsPrimary ==
    pc = "attributed" =>
        \A i \in DOMAIN sub_graphs :
            /\ DOMAIN clusters_per_node_per_graph[i] = DOMAIN clusters_in[i] \cap sub_graphs[i].nodes
            /\ \A n \in DOMAIN clusters_per_node_per_graph[i] :
                  clusters_per_node_per_graph[i][n] = clusters_in[i][n]
            /\ \A n \in sub_graphs[i].nodes :
                  IF n \in DOMAIN clusters_in[i]
                  THEN /\ "cluster" \in DOMAIN sub_graphs[i].node[n]
                       /\ sub_graphs[i].node[n]["cluster"] = clusters_in[i][n][1]
                  ELSE "cluster" \notin DOMAIN sub_graphs[i].node[n]

\* a key pruned from a map, and a node with two memberships that got its first
C22_Witness ==
    /\ pc = "attributed"
    /\ \E i \in DOMAIN sub_graphs :
          /\ DOMAIN clusters_per_node_per_graph[i] # DOMAIN clusters_in[i]
          /\ \E n \in sub_graphs[i].nodes :
                /\ n \in DOMAIN clusters_in[i]
                /\ Len(clusters_in[i][n]) = 2
                /\ sub_graphs[i].node[n]["cluster"] = clusters_in[i][n][1]

\* ------------------------------------------------------------ create_clusters: the order of its stages
\* every node of every sub-graph has a membership in the map of its sub-graph
ClusteringComplete ==
    /\ Len(clusters_per_node_per_graph) = Len(sub_graphs)
    /\ \A i \in DOMAIN sub_graphs : sub_graphs[i].nodes \subseteq DOMAIN clusters_per_node_per_graph[i]

HasClusterAttribute(n) == "cluster" \in DOMAIN AttrsOf(n)

\* C25: the conversion starts only once clustering and the homeless fixup are done for
\* every sub-graph; it goes through the maps in the order of the sub_graphs list (the
\* ids of a later map lie above the ids of every earlier one, the ids of the first map
\* stay); the cluster attributes are written only after the conversion, from the
\* converted maps; the color fusion runs only after the attributes are written.
C25_StagesInOrder ==
    [][/\ (pc = "clusters" /\ pc' # pc) => ClusteringComplete
       /\ local_to_global_cluster_mapping' # local_to_global_cluster_mapping =>
             /\ ClusteringComplete
             /\ clusters_per_node_per_graph'[1] = clusters_per_node_per_graph[1]
             /\ \A i, j \in DOMAIN clusters_per_node_per_graph' :
                   i < j => Max(ClusterValues(clusters_per_node_per_graph'[i]))
                              < Min(ClusterValues(clusters_per_node_per_graph'[j]))
       /\ sub_graphs' # sub_graphs =>
             /\ pc = "converted"
             /\ DOMAIN local_to_global_cluster_mapping = 0..(Len(sub_graphs) - 1)
             /\ \A i \in DOMAIN sub_graphs' : \A n \in sub_graphs'[i].nodes :
                   sub_graphs'[i].node[n]["cluster"] = clusters_per_node_per_graph[i][n][1]
       /\ (color_per_node' # color_per_node \/ cluster_to_color' # cluster_to_color
             \/ colors_per_node' # colors_per_node \/ fillcolor' # fillcolor) =>
             /\ pc \in {"attributed", "coloring"}
             /\ \A n \in SubGraphNodes : HasClusterAttribute(n)]_vars

\* three sub-graphs clustered, converted, attributed and colored by fusion
C25_Witness ==
    /\ pc = "colored"
    /\ Len(sub_graphs) >= 2
    /\ \E n \in SubGraphNodes : AttrsOf(n)["cluster"] >= 3
    /\ cluster_to_color # <<>>

\* ------------------------------------------------------------ command line: properties
RunStarted == pc = "running"

PastValidation == pc \in {"validated", "configured", "running"}

\* C23: when validate_arguments finds an error in the parsed command line (--clustering
\* with scheme cut-edges and --fps without --video are two of them), it logs every error
\* it found, in order, the program exits with status 1, and run() is never entered.
C23_ArgumentErrorsAreFatal ==
    LET errors == argument_errors(parsed_args)
        clustering_with_cut_edges ==
            parsed_args.scheme = "cut-edges" /\ parsed_args.clustering # <<>>
        fps_without_video == parsed_args.video = <<>> /\ parsed_args.fps = <<24>>
    IN  /\ clustering_with_cut_edges =>
              "The --clustering option is only available with the communities scheme"
                  \in Range(errors)
        /\ fps_without_video =>
              "The --fps option is only available with the --video option" \in Range(errors)
        /\ errors # <<>> =>
              /\ ~RunStarted /\ ~PastValidation
              /\ pc = "exited" => exit_status = 1 /\ logged_errors = errors /\ args = parsed_args

C23_Witness ==
    /\ pc = "exited"
    /\ Len(logged_errors) >= 2
    /\ parsed_args.scheme = "cut-edges" /\ parsed_args.clustering # <<>>
    /\ parsed_args.video = <<>> /\ parsed_args.fps = <<24>>

\* C30: once validate_arguments has returned, node_size, min_node_size and max_node_size
\* are all set, and max_node_size is 60 when --max-node-size was not given.
C30_SizeDefaultsAreSet ==
    PastValidation =>
        /\ args.node_size # <<>>
        /\ args.min_node_size # <<>>
        /\ args.max_node_size # <<>>
        /\ parsed_args.node_size = <<>> => args.node_size = <<20>>
        /\ parsed_args.min_node_size = <<>> => args.min_node_size = <<20>>
        /\ parsed_args.max_node_size = <<>> => args.max_node_size = <<60>>

\* ------------------------------------------------------------ random assignments: properties
KeptByFilter == {n \in random_graph : filter_values[n] > 0}

\* C29: with a filter, generate_random_assignments returns an assignment of every node
\* of the graph: a partition in 0..nparts-1 for exactly the nodes whose filter value is
\* positive, -1 for every other node.
C29_RandomAssignmentsFollowFilter ==
    (pc # "random" /\ filter_file) =>
        /\ random_result.raised = ""
        /\ DOMAIN random_result.assignments = random_graph
        /\ \A n \in KeptByFilter : random_result.assignments[n] \in 0..(Len(tpwgts) - 1)
        /\ \A n \in random_graph \ KeptByFilter : random_result.assignments[n] = -1

\* ------------------------------------------------------------ tiling: properties
FrameCount == Max({Len(frames_found[p]) : p \in DOMAIN frames_found}) + (fps + 1) \div 2

\* C24: combine_images_into_tiles returns frame_count tiled frames, frame_count being the
\* length of the longest partition plus ceil(0.5 * fps); every tiled frame holds one tile
\* of every partition, the blank frame where the partition has no rendered frame for that
\* index and its rendered frames, in order, at the end.
C24_EveryTiledFrameIsComplete ==
    pc # "tiling" =>
        /\ tiled.raised = ""
        /\ Len(tiled.tiles) = FrameCount
        /\ \A f \in DOMAIN tiled.tiles :
              /\ DOMAIN tiled.tiles[f] = DOMAIN frames_found
              /\ \A p \in DOMAIN frames_found :
                    LET missing == FrameCount - Len(frames_found[p])
                    IN  tiled.tiles[f][p] =
                            IF f <= missing THEN blank_frame_path
                            ELSE frames_found[p][f - missing]

====
